---- MODULE Spec2Model ----
(***************************************************************************)
(* Category extraction and blueprint engine of templateForgeAi             *)
(* (src/src/ai_agents/category_extractor).                                 *)
(*                                                                         *)
(* Text is modelled as a sequence of one-character strings, so that        *)
(* lower(), strip(), split() and the substring test are computed, not      *)
(* assumed.  A URL is the record of the components urlparse() yields that  *)
(* the code reads: origin (scheme://netloc), path and fragment.            *)
(***************************************************************************)
EXTENDS Integers, Sequences, FiniteSets, TLC

VARIABLES
    \* ---- one call of CategoryExtractorTool.extract
    pc,                 \* position in extract: "idle", the strategy method running,
                        \* "flyout", "children", "returned" or "raised"
    page,               \* agent.page is set
    analysis,           \* agent.state["analysis"]
    target_url,         \* url or self.agent.site_url
    navigation_type,    \* the local navigation_type after lines 35-41
    invoked,            \* the extraction methods the call has entered
    categories,         \* the local categories
    next_id,            \* self._next_id
    current_id,         \* current_id / parent_id of the item being expanded
    seen_urls,          \* seen_urls of _extract_click_navigation
    primary_categories, \* what the strategy method returned
    fallback_categories,\* the local fallback_categories
    needs_fallback,     \* the local needs_fallback
    state,              \* agent.state without "analysis"
    result,             \* what extract returned or raised
    link_failed,        \* the loop step just taken met a link without text or href
    expanded,           \* an item clicked open has not been clicked again
    \* ---- _post_process applied to an arbitrary candidate list
    pp_pc,          \* "build" | "done"
    pp_in,          \* the candidate list handed to _post_process
    pp_base,        \* base_url
    pp_out,         \* the list _post_process returned
    \* ---- _looks_like_noise applied to an arbitrary candidate list
    nz_pc,          \* "build" | "done"
    nz_in,          \* the candidate list handed to _looks_like_noise
    nz_out,         \* the verdict it returned
    \* ---- blueprints: generate, load_blueprint, execute_blueprint
    files,          \* the file each blueprint path holds
    now,            \* datetime.utcnow(), in seconds
    blueprint_path, \* agent.state["blueprint_path"]
    bp_pc,          \* "idle" | "_perform_interactions"
    bp_call,        \* the arguments of the last call
    bp_result,      \* what the last call returned or raised
    blueprint,      \* the blueprint load_blueprint returned last
    step,           \* index of the interaction step to run next
    waited_for,     \* the selectors the replay handed to page.wait_for_selector,
                    \* each with the token of the step it was resolved from
    \* ---- database: save_categories
    db_rows,        \* the categories table, a row per id
    sv_call,        \* the arguments of the last save_categories call
    sv_result,      \* what it returned or raised
    sv_written,     \* the statements it ran, in order
    sv_calls,       \* the number of calls made
    \* ---- agent: run_extraction, run_blueprint, cleanup
    agent_handles,  \* which of self.playwright, browser, context, page are set
    db_pool,        \* self.db.pool is not None
    run_state,      \* stage and errors of agent.state
    run_call,       \* the last run: what it was to fail of, what it held
    run_result,     \* what the last run returned or raised
    teardown,       \* the calls the last cleanup made, in order
    runs,           \* the number of runs made
    \* ---- _fallback_extraction applied to an arbitrary page
    fb_page,        \* what the page answers to each container selector
    fb_next_id,     \* _next_id when the scan starts
    fb_pc,          \* "idle" | "returned"
    fb_result       \* the categories returned, _next_id and the selectors queried

ppVars == <<pp_pc, pp_in, pp_base, pp_out>>
nzVars == <<nz_pc, nz_in, nz_out>>
bpVars == <<files, now, blueprint_path, bp_pc, bp_call, bp_result, blueprint, step,
            waited_for>>

exVars == <<pc, page, analysis, target_url, navigation_type, invoked, categories,
            next_id, current_id, seen_urls, primary_categories,
            fallback_categories, needs_fallback, state, result, link_failed,
            expanded>>

svVars == <<db_rows, sv_call, sv_result, sv_written, sv_calls>>

rnVars == <<agent_handles, db_pool, run_state, run_call, run_result, teardown, runs>>
fbVars == <<fb_page, fb_next_id, fb_pc, fb_result>>

vars == <<exVars, ppVars, nzVars, bpVars, svVars, rnVars, fbVars>>

----------------------------------------------------------------------------
(* Bounds of the model                                                     *)

MaxCandidates == 3
MaxNoiseNames == 11
MaxIds == 5
MaxFallbackLinks == 6
MaxSeconds == 1
MaxCalls == 2
MaxRuns == 2
MaxIdsBefore == 3

----------------------------------------------------------------------------
(* Text helpers                                                            *)

\* parent_id = None
NoneId == 0

LowerChar(c) ==
    CASE c = "A" -> "a" [] c = "B" -> "b" [] c = "C" -> "c" [] c = "D" -> "d"
      [] c = "E" -> "e" [] c = "F" -> "f" [] c = "G" -> "g" [] c = "H" -> "h"
      [] c = "I" -> "i" [] c = "J" -> "j" [] c = "K" -> "k" [] c = "L" -> "l"
      [] c = "M" -> "m" [] c = "N" -> "n" [] c = "O" -> "o" [] c = "P" -> "p"
      [] c = "Q" -> "q" [] c = "R" -> "r" [] c = "S" -> "s" [] c = "T" -> "t"
      [] c = "U" -> "u" [] c = "V" -> "v" [] c = "W" -> "w" [] c = "X" -> "x"
      [] c = "Y" -> "y" [] c = "Z" -> "z"
      [] OTHER -> c

\* str.lower()
lower(s) == [i \in 1..Len(s) |-> LowerChar(s[i])]

IsSpace(c) == c = " "

RECURSIVE LStrip(_)
LStrip(s) == IF s /= <<>> /\ IsSpace(Head(s)) THEN LStrip(Tail(s)) ELSE s

RECURSIVE RStrip(_)
RStrip(s) ==
    IF s /= <<>> /\ IsSpace(s[Len(s)]) THEN RStrip(SubSeq(s, 1, Len(s) - 1)) ELSE s

\* str.strip()
strip(s) == RStrip(LStrip(s))

\* keyword in text (substring test)
Contains(text, keyword) ==
    \E i \in 0..(Len(text) - Len(keyword)) :
        \A j \in 1..Len(keyword) : text[i + j] = keyword[j]

\* the empty URL: href absent (None) or ""; path and fragment are text
NoUrl == [origin |-> "", path |-> <<>>, fragment |-> <<>>]

Url(o, p, f) == [origin |-> o, path |-> p, fragment |-> f]

----------------------------------------------------------------------------
(* Link texts the pages of the model carry                                 *)

Shoes == <<"S","h","o","e","s">>
Hats == <<"H","a","t","s">>
SignIn == <<"S","i","g","n"," ","I","n">>
HomePadded == <<" ","H","O","M","E"," ">>
Homeware == <<"H","o","m","e","w","a","r","e">>
Toys == <<"T","o","y","s">>
Books == <<"B","o","o","k","s">>
Bags == <<"B","a","g","s">>
Login == <<"L","o","g","i","n">>
Cart == <<"C","a","r","t">>
Account == <<"A","c","c","o","u","n","t">>
Help == <<"H","e","l","p">>
Checkout == <<"C","h","e","c","k","o","u","t">>
Go == <<"G","o">>

KnownNames ==
    {Shoes, Hats, SignIn, HomePadded, Homeware, Toys, Books, Bags, Login, Cart, Account, Help, Checkout, Go}

----------------------------------------------------------------------------
(* utils/url_utils.py                                                      *)

\* urljoin(base_url, url) for the references the model uses: an absolute
\* URL, an absolute-path reference, or a fragment-only reference
ensure_absolute(url, base_url) ==
    IF url = NoUrl THEN base_url
    ELSE IF url.origin /= "" THEN url
    ELSE IF url.path = <<>> THEN Url(base_url.origin, base_url.path, url.fragment)
    ELSE Url(base_url.origin, url.path, url.fragment)

\* parsed._replace(fragment="") and urlunparse
normalize_url(url) == Url(url.origin, url.path, <<>>)

----------------------------------------------------------------------------
(* tools/category_extractor.py: _post_process                              *)

Category(cid, name, url, depth, parent_id) ==
    [id |-> cid, name |-> name, url |-> url, depth |-> depth, parent_id |-> parent_id]

\* key in deduped, for the insertion-ordered dict deduped kept as the
\* sequence of its values (each value carries its key: url and depth)
KeyIn(deduped, url, depth) ==
    \E i \in 1..Len(deduped) : deduped[i].url = url /\ deduped[i].depth = depth

\* a plausible slip: deduped[key] = category without the membership test, so
\* the last duplicate takes the place of the first
DedupStepOverwrite(deduped, category) ==
    IF KeyIn(deduped, category.url, category.depth)
    THEN [i \in 1..Len(deduped) |->
            IF deduped[i].url = category.url /\ deduped[i].depth = category.depth
            THEN category ELSE deduped[i]]
    ELSE Append(deduped, category)

\* one iteration of the loop body, on the category with its url normalised
DedupStep(deduped, category) ==
    IF KeyIn(deduped, category.url, category.depth)
    THEN deduped
    ELSE Append(deduped, category)

RECURSIVE PostProcessFrom(_, _, _, _)
PostProcessFrom(cats, base_url, i, deduped) ==
    IF i > Len(cats) THEN deduped
    ELSE LET c == cats[i]
             n == [c EXCEPT !.url = normalize_url(ensure_absolute(c.url, base_url))]
         IN PostProcessFrom(cats, base_url, i + 1, DedupStep(deduped, n))

post_process(cats, base_url) == PostProcessFrom(cats, base_url, 1, <<>>)

----------------------------------------------------------------------------
(* tools/category_extractor.py: _looks_like_noise                          *)

noise_keywords ==
    { <<"s","i","g","n"," ","i","n">>,
      <<"l","o","g","i","n">>,
      <<"r","e","g","i","s","t","e","r">>,
      <<"c","a","r","t">>,
      <<"b","a","s","k","e","t">>,
      <<"w","i","s","h","l","i","s","t">>,
      <<"a","c","c","o","u","n","t">>,
      <<"c","h","e","c","k","o","u","t">>,
      <<"s","e","a","r","c","h">>,
      <<"h","e","l","p">>,
      <<"c","o","n","t","a","c","t">>,
      <<"a","b","o","u","t">>,
      <<"s","k","i","p"," ","t","o">>,
      <<"m","e","n","u">>,
      <<"c","l","o","s","e">>,
      <<"o","p","e","n">>,
      <<"t","o","g","g","l","e">>,
      <<"s","h","o","w">>,
      <<"h","i","d","e">>,
      <<"s","t","o","r","e"," ","l","o","c","a","t","o","r">>,
      <<"s","t","o","r","e","s">>,
      <<"f","i","n","d"," ","a"," ","s","t","o","r","e">>,
      <<"r","e","w","a","r","d","s">>,
      <<"l","o","y","a","l","t","y">>,
      <<"t","r","a","c","k"," ","o","r","d","e","r">>,
      <<"m","y"," ","o","r","d","e","r","s">>,
      <<"m","y"," ","a","c","c","o","u","n","t">>,
      <<"s","i","g","n"," ","u","p">>,
      <<"s","u","b","s","c","r","i","b","e">> }

generic_words ==
    { <<"m","e","n","u">>,
      <<"h","o","m","e">>,
      <<"s","h","o","p">>,
      <<"b","r","o","w","s","e">>,
      <<"s","t","o","r","e","s">>,
      <<"r","e","w","a","r","d","s">> }

\* categories[:10]
NoiseWindow == 10

\* the two tests of the loop body on one name
IsNoiseName(name) ==
    LET name_lower == strip(lower(name))
    IN \/ \E keyword \in noise_keywords : Contains(name_lower, keyword)
       \/ name_lower \in generic_words

\* the names the model's pages and lists use, lowered
\* and matched once: IsNoise(name) is IsNoiseName(name)
NoiseMemo == [name \in KnownNames |-> IsNoiseName(name)]

IsNoise(name) == IF name \in KnownNames THEN NoiseMemo[name] ELSE IsNoiseName(name)

FirstN(seq, n) == SubSeq(seq, 1, IF Len(seq) < n THEN Len(seq) ELSE n)

RECURSIVE NoiseCount(_)
NoiseCount(cats) ==
    IF cats = <<>> THEN 0
    ELSE (IF IsNoise(Head(cats).name) THEN 1 ELSE 0)
         + NoiseCount(Tail(cats))

\* a plausible slip: at least half instead of more than half
looks_like_noise_at_least_half(cats) ==
    NoiseCount(FirstN(cats, NoiseWindow)) * 2
        >= Len(FirstN(cats, NoiseWindow))

\* noise_count > len(categories[:10]) * 0.5
looks_like_noise(cats) ==
    NoiseCount(FirstN(cats, NoiseWindow)) * 2
        > Len(FirstN(cats, NoiseWindow))

----------------------------------------------------------------------------
(* tools/validators.py                                                     *)

\* validate_category: name and url are required
validate_category(name, url) == name /= <<>> /\ url /= NoUrl

IdSet(cats) == {cats[i].id : i \in 1..Len(cats)}

\* a plausible slip: the parent check is skipped
validate_hierarchy_unchecked(cats) == TRUE

\* validate_hierarchy: TRUE when it returns, FALSE when it raises ValidationError
validate_hierarchy(cats) ==
    \A i \in 1..Len(cats) :
        cats[i].parent_id = NoneId \/ cats[i].parent_id \in IdSet(cats)

----------------------------------------------------------------------------
(* tools/category_extractor.py: strategy resolution                        *)

\* values of the selector map: a string or null
JStr(s) == [t |-> "str", v |-> s]
JNull == [t |-> "null", v |-> <<>>]

\* truth value of a selector (None and "" are false)
Truthy(x) == x.t = "str" /\ x.v /= <<>>

\* dict.get(key) on a map kept as a function over its keys
Get(map, key) == IF key \in DOMAIN map THEN map[key] ELSE JNull

\* state["analysis"] is None
NoAnalysis == [none |-> TRUE]

hover_menu == <<"h","o","v","e","r","_","m","e","n","u">>
sidebar == <<"s","i","d","e","b","a","r">>
accordion == <<"a","c","c","o","r","d","i","o","n">>
filter_sidebar == <<"f","i","l","t","e","r","_","s","i","d","e","b","a","r">>
generic == <<"g","e","n","e","r","i","c">>

HasPipe(s) == \E i \in 1..Len(s) : s[i] = "|"

FirstPipe(s) == CHOOSE i \in 1..Len(s) : s[i] = "|" /\ \A j \in 1..(i - 1) : s[j] /= "|"

LastPipe(s) == CHOOSE i \in 1..Len(s) : s[i] = "|" /\ \A j \in (i + 1)..Len(s) : s[j] /= "|"

\* a plausible slip: split("|")[-1], the last alternative
split_pick_last(s) == SubSeq(s, LastPipe(s) + 1, Len(s))

\* navigation_type.split("|")[0]
split_pick(s) == SubSeq(s, 1, FirstPipe(s) - 1)

\* lines 35-41: the navigation type extract dispatches on
resolve_navigation_type(strategy) ==
    LET nav_type ==
            IF "navigation_type" \in DOMAIN strategy
            THEN strategy.navigation_type ELSE generic
    IN IF HasPipe(nav_type) THEN strip(split_pick(nav_type))
       ELSE nav_type

\* lines 43-48: the strategy method the resolved type selects
Dispatch(nav_type) ==
    IF nav_type = hover_menu THEN "_extract_hover_menu"
    ELSE IF nav_type \in {sidebar, accordion, filter_sidebar}
         THEN "_extract_click_navigation"
    ELSE "_extract_generic_links"

\* the required-selector test at the head of each strategy method
HasRequiredSelectors(method, selectors) ==
    CASE method = "_extract_hover_menu" ->
            /\ Truthy(Get(selectors, "nav_container"))
            /\ Truthy(Get(selectors, "top_level_items"))
            /\ Truthy(Get(selectors, "category_links"))
      [] method = "_extract_click_navigation" ->
            /\ Truthy(Get(selectors, "nav_container"))
            /\ Truthy(Get(selectors, "category_links"))
      [] OTHER -> Truthy(Get(selectors, "category_links"))

\* strategy.get("selectors", {})
SelectorsOf(strategy) ==
    IF "selectors" \in DOMAIN strategy THEN strategy.selectors ELSE <<>>

\* _extract_link on the handle read (the element or its sub-match): the
\* stripped inner text and the href; ok is FALSE when it raises for a
\* missing href
extract_link(element) ==
    [ok |-> element.href /= NoUrl, name |-> strip(element.text), url |-> element.href]

----------------------------------------------------------------------------
(* tools/category_extractor.py: escalation                                 *)

\* len(categories) < 5
MinCategories == 5

\* a plausible slip: the noise test is left out of the escalation
NeedsFallbackNoNoise(cats) ==
    Len(cats) = 0 \/ Len(cats) < MinCategories

\* lines 51-63: needs_fallback
NeedsFallback(cats) ==
    \/ Len(cats) = 0
    \/ Len(cats) < MinCategories
    \/ looks_like_noise(cats)

\* a plausible slip: the fallback wins ties
FallbackReplacesOnTie(fb_cats, cats) ==
    Len(fb_cats) >= Len(cats)

\* line 67: len(fallback_categories) > len(categories)
FallbackReplaces(fb_cats, cats) ==
    Len(fb_cats) > Len(cats)

\* a plausible slip: an empty primary result that stands is recorded as "ai"
ExtractionMethodAiWhenEmpty(needs, fb_cats, cats) ==
    IF needs /\ FallbackReplaces(fb_cats, cats)
    THEN "fallback" ELSE "ai"

\* lines 65-76: the value written to state["extraction_method"]
ExtractionMethod(needs, fb_cats, cats) ==
    IF needs
    THEN IF FallbackReplaces(fb_cats, cats) THEN "fallback"
         ELSE IF Len(cats) > 0 THEN "ai"
         ELSE "fallback"
    ELSE "ai"

----------------------------------------------------------------------------
(* tools/category_extractor.py: _fallback_extraction                       *)

fallback_patterns ==
    << "aside", ".sidebar", ".filters", "[class*='category']", "[class*='filter']",
       "nav", ".navigation", "[role='navigation']" >>

skip_words ==
    { <<"l","o","g","i","n">>, <<"r","e","g","i","s","t","e","r">>, <<"c","a","r","t">>, <<"c","h","e","c","k","o","u","t">>, <<"a","c","c","o","u","n","t">>,
      <<"s","e","a","r","c","h">>, <<"c","o","n","t","a","c","t">>, <<"a","b","o","u","t">>, <<"h","e","l","p">>, <<"f","a","q">> }

\* containers[:3]
MaxContainers == 3
\* links[:50]
MaxLinksPerContainer == 50

\* the text of an href after its origin; the origins of the model hold none
\* of the skip words
HrefText(url) ==
    url.path \o (IF url.fragment = <<>> THEN <<>> ELSE <<"#">> \o url.fragment)

\* any(skip in url.lower() for skip in [...])
IsSkipped(url) == \E skip \in skip_words : Contains(lower(HrefText(url)), skip)

\* the body of the link loop; acc holds categories, seen_urls and _next_id
FallbackLinkStep(acc, link) ==
    LET r == extract_link(link)
    IN IF ~r.ok THEN acc
       ELSE IF IsSkipped(r.url) THEN acc
       ELSE IF r.url \in acc.seen_urls THEN acc
       ELSE LET seen == [acc EXCEPT !.seen_urls = @ \union {r.url}]
            IN IF Len(r.name) > 2 /\ Len(r.name) < 100
               THEN [seen EXCEPT
                        !.categories = Append(@, Category(seen.next_id, r.name, r.url, 0, NoneId)),
                        !.next_id = @ + 1]
               ELSE seen

RECURSIVE FallbackLinks(_, _, _)
FallbackLinks(acc, links, i) ==
    IF i > Len(links) THEN acc
    ELSE LET after == FallbackLinkStep(acc, links[i])
         IN \* a step is evaluated before the next is taken; _next_id only grows
            IF after.next_id >= acc.next_id THEN FallbackLinks(after, links, i + 1)
            ELSE after

\* the container loop; a container whose query raises ends the pattern with
\* what was collected so far (raised is then TRUE)
RECURSIVE FallbackContainers(_, _, _)
FallbackContainers(acc, containers, i) ==
    IF i > Len(containers) THEN acc
    ELSE IF containers[i].raises THEN [acc EXCEPT !.raised = TRUE]
    ELSE FallbackContainers(
            FallbackLinks(acc, FirstN(containers[i].links, MaxLinksPerContainer), 1),
            containers, i + 1)

\* the pattern loop: dom maps a container selector to what the page answers
RECURSIVE FallbackPatterns(_, _, _)
FallbackPatterns(acc, dom, p) ==
    IF p > Len(fallback_patterns) THEN acc
    ELSE LET answer == dom[fallback_patterns[p]]
             asked == [acc EXCEPT !.queried = Append(@, fallback_patterns[p])]
         IN IF answer.raises THEN FallbackPatterns(asked, dom, p + 1)
            ELSE IF answer.containers = <<>> THEN FallbackPatterns(asked, dom, p + 1)
            ELSE LET after == FallbackContainers([asked EXCEPT !.raised = FALSE],
                                   FirstN(answer.containers, MaxContainers), 1)
                 IN IF after.raised THEN FallbackPatterns(after, dom, p + 1)
                    ELSE IF after.categories /= <<>> THEN after
                    ELSE FallbackPatterns(after, dom, p + 1)

\* the scan of _fallback_extraction with the container selectors it
\* handed to page.query_selector_all, in order
FallbackScan(dom, first_id) ==
    FallbackPatterns(
       [categories |-> <<>>, seen_urls |-> {}, next_id |-> first_id,
        raised |-> FALSE, queried |-> <<>>], dom, 1)

\* _fallback_extraction: the categories and the id counter it leaves
fallback_extraction(dom, first_id) ==
    LET acc == FallbackScan(dom, first_id)
    IN [categories |-> acc.categories, next_id |-> acc.next_id]

----------------------------------------------------------------------------
(* Inputs of the pure-function checks                                      *)

SiteUrl == Url("https://example.com", <<>>, <<>>)
OtherSite == Url("https://shop.test", <<"/","h","o","m","e">>, <<>>)

BaseUrls == {SiteUrl, OtherSite}

PathA == <<"/","a">>
PathB == <<"/","b">>

RawUrls ==
    { Url("", PathA, <<>>),
      Url("", PathA, <<"t","o","p">>),
      Url("https://example.com", PathA, <<>>),
      Url("", PathB, <<>>),
      Url("", <<>>, <<"m","e","n","u">>) }

Depths == {0, 1}

PlainName == <<"T", "e", "a">>

----------------------------------------------------------------------------
(* What the page and the analysis hand to extract                          *)


\* the links a strategy's selectors match: two categories, a noise link
\* whose URL differs from the first category's by its fragment only, and a
\* link without href
PageLinks ==
    { [text |-> <<" ">> \o Shoes \o <<" ">>, href |-> Url("", PathA, <<>>)],
      [text |-> Hats, href |-> Url("https://example.com", PathB, <<>>)],
      [text |-> SignIn, href |-> Url("", PathA, <<"t","o","p">>)],
      [text |-> Toys, href |-> NoUrl] }

FullSelectors ==
    [nav_container |-> JStr(<<"n","a","v">>), top_level_items |-> JStr(<<"l","i">>),
     category_links |-> JStr(<<"a">>), flyout_panel |-> JStr(<<".","f","l","y","o","u","t">>),
     subcategory_items |-> JStr(<<"l","i",".","s","u","b">>), subcategory_link |-> JNull]

\* "sidebar|hover_menu"
SidebarOrHover == sidebar \o <<"|">> \o hover_menu

Analysis(nav_type, selectors) ==
    [navigation_type |-> nav_type, selectors |-> selectors]

\* the analyses state["analysis"] may hold when extract is called
Analyses ==
    { Analysis(hover_menu, FullSelectors),
      Analysis(sidebar, FullSelectors),
      Analysis(generic, FullSelectors),
      Analysis(SidebarOrHover, FullSelectors),
      Analysis(hover_menu \o <<" ", "|", " ">> \o sidebar, FullSelectors),
      Analysis(<<" ">> \o hover_menu \o <<" ">>, FullSelectors),
      [selectors |-> FullSelectors],
      Analysis(hover_menu, [FullSelectors EXCEPT !.category_links = JNull]),
      Analysis(generic, [nav_container |-> JStr(<<"n","a","v">>)]),
      NoAnalysis }

NoContainers == [raises |-> FALSE, containers |-> <<>>]

Repeat(c, k) == [i \in 1..k |-> c]

\* the k-th link of the page's generic containers: link 2 is a login link,
\* link 4 repeats link 1, link 5 has a two-letter text, link 7 has no href,
\* link 8 is link 1 with a fragment, every other link is a category
FallbackLink(k) ==
    CASE k = 2 -> [text |-> Login, href |-> Url("", <<"/","l","o","g","i","n">>, <<>>)]
      [] k = 4 -> [text |-> Bags, href |-> Url("", <<"/">> \o Repeat("c", 1), <<>>)]
      [] k = 5 -> [text |-> Go, href |-> Url("", <<"/">> \o Repeat("c", k), <<>>)]
      [] k = 7 -> [text |-> Bags, href |-> NoUrl]
      [] k = 8 -> [text |-> Bags, href |-> Url("", <<"/">> \o Repeat("c", 1), <<"t","o","p">>)]
      [] OTHER -> [text |-> Bags, href |-> Url("", <<"/">> \o Repeat("c", k), <<>>)]

OneContainer(n) ==
    IF n = 0 THEN NoContainers
    ELSE [raises |-> FALSE,
          containers |-> << [raises |-> FALSE, links |-> [k \in 1..n |-> FallbackLink(k)]] >>]

\* a page with a links under aside and n links under nav
Dom(a, n) ==
    [s \in {fallback_patterns[p] : p \in 1..Len(fallback_patterns)} |->
        IF s = "aside" THEN OneContainer(a)
        ELSE IF s = "nav" THEN OneContainer(n)
        ELSE NoContainers]

FallbackDoms == {Dom(0, n) : n \in 0..MaxFallbackLinks} \union {Dom(1, MaxFallbackLinks)}

\* _fallback_extraction on each page of the model, computed once per page
\* and value of _next_id
FallbackMemo ==
    [dom \in FallbackDoms, first_id \in 1..(MaxIds + 1) |-> fallback_extraction(dom, first_id)]

----------------------------------------------------------------------------
(* JSON: json.dump and json.loads as the blueprint code uses them          *)
(*                                                                         *)
(* A Python value is tagged: str, null, num (kept as its numeral), bool,   *)
(* dict (a function over its keys) or list.  A JSON text is a tree whose   *)
(* leaves are the characters written for a scalar; keys are kept as names. *)

JNum(numeral) == [t |-> "num", v |-> numeral]
JTrue == [t |-> "bool", v |-> <<"t","r","u","e">>]
PyDict(f) == [t |-> "dict", v |-> f]
PyList(l) == [t |-> "list", v |-> l]
\* json.loads raised json.JSONDecodeError
Malformed == [t |-> "JSONDecodeError", v |-> <<>>]

EmptyDict == <<>>

Scalar(chars) == [k |-> "scalar", body |-> chars]
Object(members) == [k |-> "object", body |-> members]
Array(items) == [k |-> "array", body |-> items]
\* a text that ends before its value is complete
Truncated == [k |-> "truncated", body |-> <<>>]

Quote == "\""
Backslash == "\\"
NullText == <<"n","u","l","l">>
DigitChars == <<"0","1","2","3","4","5","6","7","8","9">>
Digits == {DigitChars[i] : i \in 1..10}

\* str(n) for a natural number
RECURSIVE Numeral(_)
Numeral(n) ==
    IF n < 10 THEN <<DigitChars[n + 1]>>
    ELSE Numeral(n \div 10) \o <<DigitChars[(n % 10) + 1]>>

\* variant: the string is written as it is, quotes and backslashes included
escape_nothing(s) == s

\* the body of a JSON string: quote and backslash are escaped
RECURSIVE escape(_)
escape(s) ==
    IF s = <<>> THEN <<>>
    ELSE (IF Head(s) \in {Quote, Backslash} THEN <<Backslash, Head(s)>> ELSE <<Head(s)>>)
         \o escape(Tail(s))

\* every quote and backslash of the body is escaped
RECURSIVE WellEscaped(_)
WellEscaped(body) ==
    IF body = <<>> THEN TRUE
    ELSE IF Head(body) = Backslash
         THEN /\ Len(body) >= 2
              /\ body[2] \in {Quote, Backslash}
              /\ WellEscaped(SubSeq(body, 3, Len(body)))
    ELSE Head(body) /= Quote /\ WellEscaped(Tail(body))

RECURSIVE unescape(_)
unescape(body) ==
    IF body = <<>> THEN <<>>
    ELSE IF Head(body) = Backslash
         THEN <<body[2]>> \o unescape(SubSeq(body, 3, Len(body)))
    ELSE <<Head(body)>> \o unescape(Tail(body))

\* the order in which the members of a dict are written
KeyOrder ==
    << "version", "metadata", "extraction_strategy", "selectors", "interactions",
       "validation_rules", "extraction_stats", "edge_cases", "notes",
       "site_url", "retailer_id", "retailer_name", "generated_at", "generated_by",
       "agent_version", "confidence_score",
       "navigation_type", "complexity", "requires_javascript", "dynamic_loading",
       "nav_container", "top_level_items", "category_links", "flyout_panel",
       "action", "target", "wait_for",
       "min_categories", "max_categories", "max_depth", "required_fields", "url_pattern",
       "total_categories", "categories_by_depth", "0", "1",
       "confidence" >>

KeysInOrder(keys) == SelectSeq(KeyOrder, LAMBDA key : key \in keys)

\* json.dump(value): the text written for a value
RECURSIVE dumps(_)
dumps(x) ==
    CASE x.t = "null" -> Scalar(NullText)
      [] x.t \in {"num", "bool"} -> Scalar(x.v)
      [] x.t = "str" -> Scalar(<<Quote>> \o escape(x.v) \o <<Quote>>)
      [] x.t = "list" -> Array([i \in 1..Len(x.v) |-> dumps(x.v[i])])
      [] x.t = "dict" ->
            LET keys == KeysInOrder(DOMAIN x.v)
            IN Object([i \in 1..Len(keys) |-> <<keys[i], dumps(x.v[keys[i]])>>])

loads_scalar(chars) ==
    IF chars = NullText THEN JNull
    ELSE IF chars \in {<<"t","r","u","e">>, <<"f","a","l","s","e">>} THEN [t |-> "bool", v |-> chars]
    ELSE IF /\ chars /= <<>>
            /\ chars[1] \in Digits
            /\ \A i \in 1..Len(chars) : chars[i] \in Digits \union {"."}
         THEN JNum(chars)
    ELSE IF /\ Len(chars) >= 2
            /\ chars[1] = Quote
            /\ chars[Len(chars)] = Quote
            /\ WellEscaped(SubSeq(chars, 2, Len(chars) - 1))
         THEN JStr(unescape(SubSeq(chars, 2, Len(chars) - 1)))
    ELSE Malformed

\* json.loads(text): the value a text stands for, or Malformed; of two
\* members with the same key the later one stays
RECURSIVE loads(_)
loads(text) ==
    CASE text.k = "scalar" -> loads_scalar(text.body)
      [] text.k = "array" ->
            LET items == [i \in 1..Len(text.body) |-> loads(text.body[i])]
            IN IF \E i \in 1..Len(items) : items[i].t = "JSONDecodeError"
               THEN Malformed ELSE PyList(items)
      [] text.k = "object" ->
            LET members == text.body
                keys == {members[i][1] : i \in 1..Len(members)}
                last(key) == CHOOSE i \in 1..Len(members) :
                                /\ members[i][1] = key
                                /\ \A j \in (i + 1)..Len(members) : members[j][1] /= key
                f == [key \in keys |-> loads(members[last(key)][2])]
            IN IF \E key \in keys : f[key].t = "JSONDecodeError"
               THEN Malformed ELSE PyDict(f)
      [] OTHER -> Malformed

----------------------------------------------------------------------------
(* tools/blueprint_generator.py: BlueprintMetadata and BlueprintModel      *)

OneDotZero == <<"1",".","0">>

\* the fields BlueprintModel requires
RequiredSections ==
    {"metadata", "extraction_strategy", "selectors", "interactions",
     "validation_rules", "extraction_stats"}

IsDict(x) == x.t = "dict"
IsListOfDicts(x) == x.t = "list" /\ \A i \in 1..Len(x.v) : x.v[i].t = "dict"
IsListOfStr(x) == x.t = "list" /\ \A i \in 1..Len(x.v) : x.v[i].t = "str"

\* BlueprintMetadata accepts the value
ValidMetadata(x) ==
    /\ IsDict(x)
    /\ {"site_url", "retailer_id", "confidence_score"} \subseteq DOMAIN x.v
    /\ x.v["site_url"].t = "str"
    /\ x.v["retailer_id"].t = "num"
    /\ x.v["confidence_score"].t = "num"
    /\ "retailer_name" \in DOMAIN x.v => x.v["retailer_name"].t \in {"str", "null"}
    /\ \A key \in {"generated_at", "generated_by", "agent_version"} \intersect DOMAIN x.v :
          x.v[key].t = "str"

\* BlueprintModel accepts the fields
ValidModel(d) ==
    /\ RequiredSections \subseteq DOMAIN d
    /\ "version" \in DOMAIN d => d["version"].t = "str"
    /\ ValidMetadata(d["metadata"])
    /\ IsDict(d["extraction_strategy"])
    /\ IsDict(d["selectors"])
    /\ IsListOfDicts(d["interactions"])
    /\ IsDict(d["validation_rules"])
    /\ IsDict(d["extraction_stats"])
    /\ "edge_cases" \in DOMAIN d => IsListOfDicts(d["edge_cases"])
    /\ "notes" \in DOMAIN d => IsListOfStr(d["notes"])

\* the BlueprintModel built from accepted fields, defaults filled in
BlueprintModel(d) ==
    [version |-> IF "version" \in DOMAIN d THEN d["version"].v ELSE OneDotZero,
     metadata |-> d["metadata"].v,
     extraction_strategy |-> d["extraction_strategy"].v,
     selectors |-> d["selectors"].v,
     interactions |-> [i \in 1..Len(d["interactions"].v) |-> d["interactions"].v[i].v],
     validation_rules |-> d["validation_rules"].v,
     extraction_stats |-> d["extraction_stats"].v,
     edge_cases |-> IF "edge_cases" \in DOMAIN d
                    THEN [i \in 1..Len(d["edge_cases"].v) |-> d["edge_cases"].v[i].v]
                    ELSE <<>>,
     notes |-> IF "notes" \in DOMAIN d THEN d["notes"].v ELSE <<>>]

\* BlueprintModel.model_validate(payload) raised pydantic's ValidationError
Invalid == [invalid |-> TRUE]

model_validate(payload) ==
    IF IsDict(payload) /\ ValidModel(payload.v) THEN BlueprintModel(payload.v) ELSE Invalid

DictList(l) == PyList([i \in 1..Len(l) |-> PyDict(l[i])])

\* blueprint.model_dump(mode="json")
model_dump(model) ==
    PyDict([version |-> JStr(model.version),
            metadata |-> PyDict(model.metadata),
            extraction_strategy |-> PyDict(model.extraction_strategy),
            selectors |-> PyDict(model.selectors),
            interactions |-> DictList(model.interactions),
            validation_rules |-> PyDict(model.validation_rules),
            extraction_stats |-> PyDict(model.extraction_stats),
            edge_cases |-> DictList(model.edge_cases),
            notes |-> PyList(model.notes)])

----------------------------------------------------------------------------
(* blueprints/loader.py                                                    *)

\* a file: whether it exists, whether its bytes are UTF-8, and the text
\* they decode to
File(text) == [exists |-> TRUE, utf8 |-> TRUE, text |-> text]
NoFile == [exists |-> FALSE, utf8 |-> TRUE, text |-> Truncated]
\* a file whose bytes are not UTF-8
UndecodableFile == [exists |-> TRUE, utf8 |-> FALSE, text |-> Truncated]

Raise(op, kind) == [op |-> op, kind |-> kind, value |-> <<>>]
Return(op, value) == [op |-> op, kind |-> "return", value |-> value]

\* load_blueprint on the file found at the path
load_blueprint(file) ==
    IF ~file.exists THEN Raise("load_blueprint", "BlueprintError")
    ELSE IF ~file.utf8 THEN Raise("load_blueprint", "UnicodeDecodeError")
    ELSE LET payload == loads(file.text)
         IN IF payload.t = "JSONDecodeError" THEN Raise("load_blueprint", "BlueprintError")
            ELSE LET model == model_validate(payload)
                 IN IF "invalid" \in DOMAIN model
                    THEN Raise("load_blueprint", "BlueprintError")
                    ELSE IF model.version /= OneDotZero
                    THEN Raise("load_blueprint", "BlueprintError")
                    ELSE Return("load_blueprint", model)

----------------------------------------------------------------------------
(* tools/blueprint_generator.py: generate                                  *)

RetailerId == 1
SiteUrlText == <<"h","t","t","p","s",":","/","/","e","x","a","m","p","l","e",".","c","o","m">>

\* dict.get(key, default) on a dict kept as a function over its keys
GetOr(map, key, default) == IF key \in DOMAIN map THEN map[key] ELSE default

\* max(values, default=default)
MaxOf(values, default) ==
    IF values = {} THEN default ELSE CHOOSE m \in values : \A x \in values : x <= m

build_strategy_section(strategy) ==
    [navigation_type |-> GetOr(strategy, "navigation_type", JStr(<<"u","n","k","n","o","w","n">>)),
     complexity |-> GetOr(strategy, "complexity", JStr(<<"u","n","k","n","o","w","n">>)),
     requires_javascript |-> GetOr(strategy, "requires_javascript", JTrue),
     dynamic_loading |-> GetOr(strategy, "dynamic_loading", PyDict(EmptyDict))]

build_validation_rules(cats, strategy) ==
    LET total == Len(cats)
        max_depth == MaxOf({cats[i].depth : i \in 1..total}, 0)
    IN [min_categories |-> JNum(Numeral(MaxOf({1, total \div 4}, 1))),
        max_categories |-> JNum(Numeral(total * 2)),
        max_depth |-> JNum(Numeral(max_depth)),
        required_fields |-> PyList(<<JStr(<<"n","a","m","e">>), JStr(<<"u","r","l">>)>>),
        url_pattern |-> GetOr(strategy, "url_pattern", JStr(<<>>))]

\* str(depth) as a key of categories_by_depth
DepthKeys == <<"0", "1">>

build_stats(cats) ==
    LET depths == {cats[i].depth : i \in 1..Len(cats)}
        count(depth) == Cardinality({i \in 1..Len(cats) : cats[i].depth = depth})
        depth_of(key) == CHOOSE depth \in depths : DepthKeys[depth + 1] = key
    IN [total_categories |-> JNum(Numeral(Len(cats))),
        max_depth |-> JNum(Numeral(MaxOf(depths, 0))),
        categories_by_depth |->
            PyDict([key \in {DepthKeys[depth + 1] : depth \in depths} |->
                        JNum(Numeral(count(depth_of(key))))])]

\* lines 53-68: the fields generate hands to BlueprintMetadata and
\* BlueprintModel; now stands for datetime.utcnow() at one-second resolution
GeneratedFields(cats, strategy, retailer_name, now_s) ==
    [metadata |->
        PyDict([site_url |-> JStr(SiteUrlText),
                retailer_id |-> JNum(Numeral(RetailerId)),
                retailer_name |-> retailer_name,
                generated_at |-> JStr(Numeral(now_s)),
                generated_by |-> JStr(<<"a","i","_","c","a","t","e","g","o","r","y","_","e","x","t","r","a","c","t","o","r">>),
                agent_version |-> JStr(<<"0",".","1",".","0">>),
                confidence_score |-> GetOr(strategy, "confidence", JNum(<<"0",".","5">>))]),
     extraction_strategy |-> PyDict(build_strategy_section(strategy)),
     selectors |-> GetOr(strategy, "selectors", PyDict(EmptyDict)),
     interactions |-> GetOr(strategy, "interactions", PyList(<<>>)),
     validation_rules |-> PyDict(build_validation_rules(cats, strategy)),
     extraction_stats |-> PyDict(build_stats(cats)),
     notes |-> GetOr(strategy, "notes", PyList(<<>>))]

\* variant: only the empty category list is rejected
RejectsEmptyListOnly(cats, strategy) == cats = <<>>

\* lines 47-50: not categories, not strategy
Rejects(cats, strategy) == cats = <<>> \/ DOMAIN strategy = {}

\* output_dir / f"retailer_{retailer_id}_{%Y%m%d_%H%M%S}.json"
BlueprintPath(retailer_id, stamp) ==
    [dir |-> "blueprints", retailer |-> retailer_id, stamp |-> stamp]

\* a path outside the generator's output directory
OwnPath == [dir |-> "custom", retailer |-> 0, stamp |-> 0]

\* state["blueprint_path"] is None
NoPath == [dir |-> "", retailer |-> 0, stamp |-> 0]

\* json.dump(blueprint.model_dump(mode="json"), handle)
BlueprintText(model) == dumps(model_dump(model))

----------------------------------------------------------------------------
(* blueprints/executor.py                                                  *)

\* not value
Falsy(x) ==
    CASE x.t = "null" -> TRUE
      [] x.t = "str" -> x.v = <<>>
      [] x.t = "list" -> Len(x.v) = 0
      [] x.t = "dict" -> DOMAIN x.v = {}
      [] x.t = "num" -> \A i \in 1..Len(x.v) : x.v[i] \in {"0", "."}
      [] OTHER -> x.v = <<"f","a","l","s","e">>

\* the spelling of the selector keys a step may name
KeySpelling ==
    [nav_container |-> <<"n","a","v","_","c","o","n","t","a","i","n","e","r">>,
     top_level_items |-> <<"t","o","p","_","l","e","v","e","l","_","i","t","e","m","s">>,
     category_links |-> <<"c","a","t","e","g","o","r","y","_","l","i","n","k","s">>,
     flyout_panel |-> <<"f","l","y","o","u","t","_","p","a","n","e","l">>]

NamesKey(selectors, token, key) ==
    key \in DOMAIN selectors /\ key \in DOMAIN KeySpelling /\ KeySpelling[key] = token.v

\* selectors.get(token, token)
resolve_selector(selectors, token) ==
    IF token.t = "str" /\ \E key \in DOMAIN selectors : NamesKey(selectors, token, key)
    THEN selectors[CHOOSE key \in DOMAIN selectors : NamesKey(selectors, token, key)]
    ELSE token

\* page.wait_for_selector(selector, timeout): "found", "TimeoutError" when
\* the element does not appear in time, "Error" when the selector is not a
\* string
wait_for_selector(selector, appears) ==
    IF selector.t /= "str" THEN "Error"
    ELSE IF appears THEN "found" ELSE "TimeoutError"

\* one pass of the loop of _perform_interactions: "next" or the exception
\* that leaves the loop
perform_interaction(step_dict, selectors, target_appears, wait_appears) ==
    LET action == Get(step_dict, "action")
        target_selector == resolve_selector(selectors, Get(step_dict, "target"))
        wait_for == Get(step_dict, "wait_for")
        acted == IF action.t = "str" /\ action.v \in {<<"h","o","v","e","r">>, <<"c","l","i","c","k">>}
                 THEN wait_for_selector(target_selector, target_appears)
                 ELSE "found"
    IN IF acted /= "found" THEN acted
       ELSE IF Falsy(wait_for) THEN "next"
       ELSE LET waited == wait_for_selector(resolve_selector(selectors, wait_for), wait_appears)
            IN IF waited = "found" THEN "next" ELSE waited

\* the calls of page.wait_for_selector one pass of the loop makes (lines
\* 32, 35 and 45): the token of the step and the selector handed to the page
waits(step_dict, selectors, target_appears) ==
    LET action == Get(step_dict, "action")
        target == Get(step_dict, "target")
        wait_for == Get(step_dict, "wait_for")
        acts == action.t = "str" /\ action.v \in {<<"h","o","v","e","r">>, <<"c","l","i","c","k">>}
        target_selector == resolve_selector(selectors, target)
        reached == ~acts \/ wait_for_selector(target_selector, target_appears) = "found"
    IN (IF acts THEN <<[token |-> target, selector |-> target_selector]>> ELSE <<>>)
       \o (IF reached /\ ~Falsy(wait_for)
           THEN <<[token |-> wait_for, selector |-> resolve_selector(selectors, wait_for)]>>
           ELSE <<>>)

\* lines 55-70: the categories the elements yield; an element whose read
\* raises, or that has no href, is passed over
RECURSIVE ReplayElements(_, _, _)
ReplayElements(acc, elements, base_url) ==
    IF elements = <<>> THEN acc
    ELSE LET element == Head(elements)
             found == IF element.raises \/ element.href = NoUrl THEN <<>>
                      ELSE << [name |-> strip(element.text),
                               url |-> normalize_url(ensure_absolute(element.href, base_url)),
                               depth |-> 0,
                               parent_id |-> NoneId] >>
         IN ReplayElements(acc \o found, Tail(elements), base_url)

\* _extract_categories
extract_categories(selectors, elements, base_url) ==
    LET link_selector == Get(selectors, "category_links")
    IN IF Falsy(link_selector) THEN Raise("execute_blueprint", "BlueprintError")
       ELSE IF link_selector.t /= "str" THEN Raise("execute_blueprint", "Error")
       ELSE LET cats == ReplayElements(<<>>, elements, base_url)
            IN IF cats = <<>> THEN Raise("execute_blueprint", "BlueprintError")
               ELSE Return("execute_blueprint", cats)

----------------------------------------------------------------------------
(* Strategies, category lists, documents and pages of the blueprint checks *)

HoverStep ==
    [action |-> JStr(<<"h","o","v","e","r">>), target |-> JStr(<<"t","o","p","_","l","e","v","e","l","_","i","t","e","m","s">>),
     wait_for |-> JStr(<<"f","l","y","o","u","t","_","p","a","n","e","l">>)]

ClickStep == [action |-> JStr(<<"c","l","i","c","k">>), target |-> JStr(<<"#","m","e","n","u">>)]

ScrollStep == [action |-> JStr(<<"s","c","r","o","l","l">>)]

\* a[rel="c"]
QuotedSelector == <<"a","[","r","e","l","=">> \o <<Quote>> \o <<"c">> \o <<Quote>> \o <<"]">>

HoverStrategy ==
    [navigation_type |-> JStr(hover_menu),
     selectors |-> PyDict([nav_container |-> JNull,
                           top_level_items |-> JStr(<<"n","a","v"," ",">"," ","l","i">>),
                           category_links |-> JStr(QuotedSelector),
                           flyout_panel |-> JStr(<<".","f","l","y","o","u","t">>)]),
     interactions |-> PyList(<<PyDict(HoverStep), PyDict(ScrollStep)>>),
     confidence |-> JNum(<<"0",".","9">>)]

SidebarStrategy ==
    [navigation_type |-> JStr(sidebar),
     selectors |-> PyDict([category_links |-> JStr(<<"n","a","v"," ","a">>)])]

NoSelectorsStrategy ==
    [navigation_type |-> JStr(generic),
     interactions |-> PyList(<<PyDict(ClickStep)>>)]

\* a step whose target is a key of the selector map that holds null
ClickNavStep == [action |-> JStr(<<"c","l","i","c","k">>),
                 target |-> JStr(<<"n","a","v","_","c","o","n","t","a","i","n","e","r">>)]

NullTargetStrategy ==
    [navigation_type |-> JStr(sidebar),
     selectors |-> PyDict([nav_container |-> JNull,
                           category_links |-> JStr(<<"n","a","v"," ","a">>)]),
     interactions |-> PyList(<<PyDict(ClickNavStep), PyDict(ScrollStep)>>)]

\* selectors is null: BlueprintModel does not accept it
NullSelectorsStrategy == [navigation_type |-> JStr(generic), selectors |-> JNull]

Strategies ==
    {HoverStrategy, SidebarStrategy, NoSelectorsStrategy, NullSelectorsStrategy, EmptyDict}

TwoCategories ==
    << Category(1, Shoes, Url("https://example.com", PathA, <<>>), 0, NoneId),
       Category(2, Hats, Url("https://example.com", PathB, <<>>), 1, 1) >>

CategoryLists == {<<>>, TwoCategories}

\* get_retailer_info(...).get("name"), or None when the retailer is unknown
RetailerNames == {JNull, JStr(<<"A","c","m","e">>)}

\* the blueprint generate builds from a strategy
Generated(strategy) ==
    BlueprintModel(GeneratedFields(TwoCategories, strategy, JNull, 0))

\* the document of the schema test: one selector, no interactions
PlainDocument ==
    model_dump(BlueprintModel(GeneratedFields(TwoCategories, SidebarStrategy, JNull, 0)))

Without(doc, key) == PyDict([k \in DOMAIN doc.v \ {key} |-> doc.v[k]])
With(doc, key, value) ==
    PyDict([k \in DOMAIN doc.v \union {key} |-> IF k = key THEN value ELSE doc.v[k]])

\* documents written by hand
OwnDocuments ==
    {PlainDocument,
     Without(PlainDocument, "version"),
     With(PlainDocument, "version", JStr(<<"2",".","0">>)),
     With(PlainDocument, "version", JNum(<<"1",".","0">>)),
     With(PlainDocument, "version", JNull),
     With(PlainDocument, "selectors", JNull),
     With(PlainDocument, "selectors", PyDict(EmptyDict)),
     With(With(PlainDocument, "selectors", PyDict(EmptyDict)),
          "interactions", PyList(<<PyDict(HoverStep)>>)),
     With(PlainDocument, "interactions", PyList(<<PyDict(ClickStep), PyDict(ScrollStep)>>)),
     With(PlainDocument, "metadata",
          PyDict([site_url |-> JStr(SiteUrlText), retailer_id |-> JNum(<<"1">>)])),
     PyList(<<>>)}
    \union {Without(PlainDocument, section) : section \in RequiredSections}

\* the files a blueprint path may hold
BlueprintFiles ==
    {File(dumps(doc)) : doc \in OwnDocuments}
    \union {File(BlueprintText(Generated(strategy))) :
               strategy \in {HoverStrategy, NoSelectorsStrategy, NullTargetStrategy}}
    \union {File(Truncated),
            File(Object(<< <<"version", Scalar(<<"1",".","0">> \o <<Quote>>)>> >>)),
            UndecodableFile}

Element(text, href, raises) == [text |-> text, href |-> href, raises |-> raises]

\* what page.query_selector_all may return
ElementLists ==
    {<<>>,
     << Element(Toys, NoUrl, FALSE) >>,
     << Element(Books, Url("", PathA, <<>>), TRUE) >>,
     << Element(<<" ">> \o Shoes \o <<" ">>, Url("", PathA, <<>>), FALSE) >>,
     << Element(Shoes, Url("", PathA, <<>>), FALSE),
        Element(Books, Url("", PathB, <<>>), TRUE),
        Element(Toys, NoUrl, FALSE),
        Element(SignIn, Url("", PathA, <<"t","o","p">>), FALSE) >>}

----------------------------------------------------------------------------
(* database.py: CategoryDatabase.save_categories                           *)

\* category.get("url") of a category without one: None or "" (line 86)
NoUrlText == ""
RootUrl == "https://example.com/root"
ChildUrl == "https://example.com/root/child"

\* a row of the categories table; its id is its position in the table
Row(name, url, parent_id, retailer_id, depth) ==
    [name |-> name, url |-> url, parent_id |-> parent_id,
     retailer_id |-> retailer_id, depth |-> depth, enabled |-> TRUE]

\* line 74
ZeroStats == [saved |-> 0, updated |-> 0, skipped |-> 0, errors |-> 0]

\* stats[key] += 1
Count(stats, key) == [stats EXCEPT ![key] = @ + 1]

\* line 76: sorted(categories, key=depth), which keeps the order of equal keys
RECURSIVE sorted_categories(_)
sorted_categories(cats) ==
    IF cats = <<>> THEN <<>>
    ELSE LET front == sorted_categories(SubSeq(cats, 1, Len(cats) - 1))
             cat == cats[Len(cats)]
             k == Cardinality({i \in 1..Len(front) : front[i].depth <= cat.depth})
         IN  SubSeq(front, 1, k) \o <<cat>> \o SubSeq(front, k + 1, Len(front))

\* line 92: id_map.get(local_parent_id) if local_parent_id is not None else None
db_parent_id(id_map, local_parent_id) ==
    IF local_parent_id /= NoneId /\ local_parent_id \in DOMAIN id_map
    THEN id_map[local_parent_id]
    ELSE NoneId

\* id_map[category.get("id")] = db_id (lines 116, 136)
IdMapSet(id_map, local_id, db_id) ==
    [k \in DOMAIN id_map \union {local_id} |->
        IF k = local_id THEN db_id ELSE id_map[k]]

\* lines 94-98: SELECT id FROM categories WHERE url = $1 AND retailer_id = $2
SelectExisting(rows, url, retailer_id) ==
    {i \in 1..Len(rows) : rows[i].url = url /\ rows[i].retailer_id = retailer_id}

\* what a statement wrote: the row, for which category, with which parent
Written(op, cat, db_id, parent) ==
    [op |-> op, local_id |-> cat.id, local_parent_id |-> cat.parent_id,
     db_id |-> db_id, parent_id |-> parent, depth |-> cat.depth]

\* variant: a category whose url is in the table gets a row of its own
NeverExisting(existing) == FALSE
\* line 99: if existing
IsExisting(existing) == existing /= {}

\* lines 83-143, one turn of the loop; raises: a statement of this turn (or
\* category["name"]) raised, which either except clause counts
save_row(st, cat, retailer_id, raises) ==
    IF raises THEN [st EXCEPT !.stats = Count(@, "errors")]
    ELSE IF cat.url = NoUrlText THEN [st EXCEPT !.stats = Count(@, "skipped")]
    ELSE LET parent == db_parent_id(st.id_map, cat.parent_id)
             existing == SelectExisting(st.rows, cat.url, retailer_id)
         IN  IF IsExisting(existing)
             THEN LET db_id == CHOOSE i \in existing : \A j \in existing : i <= j
                  IN  [rows |-> [st.rows EXCEPT ![db_id] =
                                   [@ EXCEPT !.name = cat.name, !.parent_id = parent,
                                             !.depth = cat.depth, !.enabled = TRUE]],
                       id_map |-> IdMapSet(st.id_map, cat.id, db_id),
                       stats |-> Count(st.stats, "updated"),
                       written |-> Append(st.written, Written("UPDATE", cat, db_id, parent))]
             ELSE LET db_id == Len(st.rows) + 1
                  IN  [rows |-> Append(st.rows,
                                   Row(cat.name, cat.url, parent, retailer_id, cat.depth)),
                       id_map |-> IdMapSet(st.id_map, cat.id, db_id),
                       stats |-> Count(st.stats, "saved"),
                       written |-> Append(st.written, Written("INSERT", cat, db_id, parent))]

RECURSIVE SaveFrom(_, _, _, _, _)
\* variant: the first turn that raises ends the loop
SaveUntilRaise(st, sorted, retailer_id, raising, i) ==
    IF i > Len(sorted) THEN st
    ELSE IF i \in raising THEN save_row(st, sorted[i], retailer_id, TRUE)
    ELSE SaveFrom(save_row(st, sorted[i], retailer_id, FALSE),
                  sorted, retailer_id, raising, i + 1)

\* lines 82-143: the loop over sorted_categories from turn i on
SaveFrom(st, sorted, retailer_id, raising, i) ==
    IF i > Len(sorted) THEN st
    ELSE SaveFrom(save_row(st, sorted[i], retailer_id, i \in raising),
                  sorted, retailer_id, raising, i + 1)

\* lines 74-151, once connected; raising: the turns of the loop that raise
save_categories(cats, retailer_id, rows, raising) ==
    SaveFrom([rows |-> rows, id_map |-> <<>>, stats |-> ZeroStats, written |-> <<>>],
             sorted_categories(cats), retailer_id, raising, 1)

\* the category lists saved
SaveNames == {"Root", "Root Updated"}
Roots == {Category(1, name, url, 0, NoneId) :
             name \in SaveNames, url \in {NoUrlText, RootUrl}}
Children == {Category(2, "Child", url, 1, parent_id) :
                url \in {NoUrlText, RootUrl, ChildUrl}, parent_id \in {NoneId, 1}}
Batches ==
    {<<>>} \union {<<cat>> : cat \in Roots \union Children}
           \union {<<root, child>> : root \in Roots, child \in Children}
           \union {<<child, root>> : root \in Roots, child \in Children}
Retailers == {999, 1000}

\* no save_categories call made yet
NoSave == [categories |-> <<>>, retailer_id |-> 0, raising |-> {}]
NoStats == [kind |-> "none", stats |-> ZeroStats]

SVStart ==
    /\ db_rows = <<>>
    /\ sv_call = NoSave
    /\ sv_result = NoStats
    /\ sv_written = <<>>
    /\ sv_calls = 0

----------------------------------------------------------------------------
(* agent.py: run_extraction, run_blueprint, _record_error, cleanup         *)

\* an exception and str(exc)
Exc(kind, message) == [kind |-> kind, message |-> message]
NoExc == Exc("none", "")

\* the handles initialize_browser assigns, in the order of lines 162-185
BrowserSteps == <<"playwright", "browser", "context", "page">>

LaunchError == Exc("Error", "BrowserType.launch: Executable doesn't exist")

\* lines 157-186; fails_at: the assignment whose call raises, 0 for none
initialize_browser(handles, fails_at) ==
    IF "browser" \in handles THEN [handles |-> handles, raised |-> NoExc]
    ELSE IF fails_at = 0
         THEN [handles |-> handles \union {BrowserSteps[i] : i \in 1..Len(BrowserSteps)},
               raised |-> NoExc]
         ELSE [handles |-> handles \union {BrowserSteps[i] : i \in 1..(fails_at - 1)},
               raised |-> LaunchError]

\* what a run can fail of: the step of the try block and its exception
Plan(at, fails_at, exc) == [at |-> at, fails_at |-> fails_at, exc |-> exc]
NoFailure == Plan("none", 0, NoExc)
BrowserFailures(handles) ==
    IF "browser" \in handles THEN {}
    ELSE {Plan("initialize_browser", k, LaunchError) : k \in 1..Len(BrowserSteps)}
ExtractionFailures(handles, pool) ==
    BrowserFailures(handles)
    \union (IF pool THEN {}
            ELSE {Plan("db.connect", 0,
                       Exc("DatabaseError", "Failed to connect to database: refused"))})
    \union {Plan("agent.arun", 0, exc) :
               exc \in {Exc("NavigationError", "Failed to navigate"),
                        Exc("AnalysisError", "Page analysis failed"),
                        Exc("BotDetectionError", "Bot detection triggered"),
                        Exc("ExtractionError", "Missing selectors for hover menu extraction")}}
BlueprintFailures(handles) ==
    BrowserFailures(handles)
    \union {Plan("load_blueprint", 0, Exc("BlueprintError", "Failed to read blueprint"))}
    \union {Plan("execute_blueprint", 0, exc) :
               exc \in {Exc("BlueprintError", "Blueprint missing category_links selector"),
                        Exc("TimeoutError", "Timeout 5000ms exceeded")}}

\* lines 196-200 and 218-223: the try block up to its first exception
TryBlock(op, handles, pool, plan) ==
    LET browser == initialize_browser(handles,
                      IF plan.at = "initialize_browser" THEN plan.fails_at ELSE 0)
    IN  IF browser.raised /= NoExc
        THEN [handles |-> browser.handles, pool |-> pool, raised |-> browser.raised]
        ELSE IF op = "run_extraction" /\ ~pool /\ plan.at = "db.connect"
        THEN [handles |-> browser.handles, pool |-> FALSE, raised |-> plan.exc]
        ELSE [handles |-> browser.handles,
              pool |-> pool \/ op = "run_extraction",
              raised |-> plan.exc]

\* lines 232-235
record_error(st, message) ==
    [st EXCEPT !.errors = Append(@, message), !.stage = "failed"]

\* variant: the error field is str(exc) in every handler
ErrorIsMessage(op, exc) == exc.message
\* the "error" of lines 204, 208-212 and 228
ErrorField(op, exc) ==
    IF op = "run_blueprint"
          \/ exc.kind \in {"NavigationError", "AnalysisError", "BotDetectionError"}
    THEN exc.message
    ELSE "Unexpected error during extraction"

\* what the try block and its handlers leave to return (lines 196-212, 218-228)
Outcome(op, st, raised) ==
    IF raised = NoExc
    THEN [success |-> TRUE, error |-> "", state |-> [st EXCEPT !.stage = "completed"]]
    ELSE [success |-> FALSE, error |-> ErrorField(op, raised),
          state |-> record_error(st, raised.message)]

\* the close and stop calls of cleanup, in the order of lines 239-246
TeardownSteps == <<"page", "context", "browser", "playwright">>
TeardownError == Exc("Error", "Target page, context or browser has been closed")
DisconnectError == Exc("InterfaceError", "pool is closing")

\* lines 237-253; ui_raises: the close or stop call that raises ("none" for
\* none), db_raises: pool.close() raises
cleanup(handles, pool, ui_raises, db_raises) ==
    LET due == SelectSeq(TeardownSteps, LAMBDA h : h \in handles)
        stop == IF ui_raises = "none" THEN Len(due)
                ELSE CHOOSE i \in 1..Len(due) : due[i] = ui_raises
        calls == SubSeq(due, 1, stop) \o <<"db.disconnect">>
    IN  IF pool /\ db_raises
        THEN [handles |-> handles, pool |-> TRUE, calls |-> calls,
              raised |-> DisconnectError]
        ELSE [handles |-> {}, pool |-> FALSE, calls |-> calls,
              raised |-> IF ui_raises = "none" THEN NoExc ELSE TeardownError]

\* lines 188-214 and 216-230: try, handlers and finally
run(op, st, handles, pool, plan, ui_raises, db_raises) ==
    LET body == TryBlock(op, handles, pool, plan)
        outcome == Outcome(op, st, body.raised)
        final == cleanup(body.handles, body.pool, ui_raises, db_raises)
    IN  [handles |-> final.handles, pool |-> final.pool, calls |-> final.calls,
         state |-> outcome.state, due |-> body.handles, connected |-> body.pool,
         result |-> IF final.raised = NoExc
                    THEN [kind |-> "return", success |-> outcome.success,
                          error |-> outcome.error, exc |-> NoExc]
                    ELSE [kind |-> "raise", success |-> FALSE, error |-> "",
                          exc |-> final.raised]]

\* lines 37-43
InitialState == [stage |-> "initialized", errors |-> <<>>]
NoRun == [op |-> "none", plan |-> NoFailure, ui_raises |-> "none", db_raises |-> FALSE,
          due |-> {}, connected |-> FALSE]
NoRunResult == [kind |-> "none", success |-> FALSE, error |-> "", exc |-> NoExc]

RNStart ==
    /\ agent_handles = {}
    /\ db_pool = FALSE
    /\ run_state = InitialState
    /\ run_call = NoRun
    /\ run_result = NoRunResult
    /\ teardown = <<>>
    /\ runs = 0

\* no fallback scan on its own
NoScan == [categories |-> <<>>, next_id |-> 0, queried |-> <<>>]

FBStart ==
    /\ fb_page = Dom(0, 0)
    /\ fb_next_id = 1
    /\ fb_pc = "idle"
    /\ fb_result = NoScan

----------------------------------------------------------------------------
(* The state after construction, per part of the program                  *)

NoResult == [kind |-> "none", categories |-> <<>>, total |-> 0, navigation_type |-> <<>>]

PPStart ==
    /\ pp_pc = "build"
    /\ pp_in = <<>>
    /\ pp_out = <<>>

NZStart ==
    /\ nz_pc = "build"
    /\ nz_in = <<>>
    /\ nz_out = FALSE

ExStart ==
    /\ pc = "idle"
    /\ page = TRUE
    /\ analysis = NoAnalysis
    /\ target_url = NoUrl
    /\ navigation_type = <<>>
    /\ invoked = {}
    /\ categories = <<>>
    /\ next_id = 1
    /\ current_id = NoneId
    /\ seen_urls = {}
    /\ primary_categories = <<>>
    /\ fallback_categories = <<>>
    /\ needs_fallback = FALSE
    /\ state = [categories_found |-> 0]
    /\ result = NoResult
    /\ link_failed = FALSE
    /\ expanded = FALSE

\* no call made yet
NoCall == [op |-> "none", path |-> NoPath, categories |-> <<>>, strategy |-> EmptyDict]

\* no blueprint loaded
NoBlueprint == [none |-> TRUE]

Paths == {OwnPath} \union {BlueprintPath(RetailerId, stamp) : stamp \in 0..MaxSeconds}

BPStart ==
    /\ files = [path \in Paths |-> NoFile]
    /\ now = 0
    /\ blueprint_path = NoPath
    /\ bp_pc = "idle"
    /\ bp_call = NoCall
    /\ bp_result = Raise("none", "none")
    /\ blueprint = NoBlueprint
    /\ step = 0
    /\ waited_for = <<>>

----------------------------------------------------------------------------
(* Specification Spec: one call of CategoryExtractorTool.extract           *)

Raised(kind) == [NoResult EXCEPT !.kind = kind]

Init ==
    /\ pc = "idle"
    /\ page \in BOOLEAN
    /\ analysis \in Analyses
    /\ target_url = NoUrl
    /\ navigation_type = <<>>
    /\ invoked = {}
    /\ categories = <<>>
    /\ next_id = 1
    /\ current_id = NoneId
    /\ seen_urls = {}
    /\ primary_categories = <<>>
    /\ fallback_categories = <<>>
    /\ needs_fallback = FALSE
    /\ state = [categories_found |-> 0]
    /\ result = NoResult
    /\ link_failed = FALSE
    /\ expanded = FALSE
    /\ PPStart
    /\ pp_base = SiteUrl
    /\ NZStart
    /\ BPStart
    /\ SVStart
    /\ RNStart
    /\ FBStart

Others == <<ppVars, nzVars, bpVars, svVars, rnVars, fbVars>>

loopVars == <<categories, next_id, current_id, seen_urls>>
callVars == <<page, analysis, target_url, navigation_type, invoked>>
endVars == <<primary_categories, fallback_categories, needs_fallback, state, result>>

\* lines 27-48: extract up to the head of the strategy method it selects
ExtractCall ==
    /\ pc = "idle"
    /\ \E url \in {NoUrl} :
         IF ~page \/ "none" \in DOMAIN analysis
         THEN /\ pc' = "raised"
              /\ result' = Raised("ExtractionError")
              /\ UNCHANGED <<target_url, navigation_type, invoked>>
         ELSE LET nt == resolve_navigation_type(analysis)
                  method == Dispatch(nt)
              IN /\ target_url' = (IF url = NoUrl THEN SiteUrl ELSE url)
                 /\ navigation_type' = nt
                 /\ invoked' = {method}
                 /\ IF HasRequiredSelectors(method, SelectorsOf(analysis))
                    THEN /\ pc' = method
                         /\ UNCHANGED result
                    ELSE /\ pc' = "raised"
                         /\ result' = Raised("ExtractionError")
    /\ UNCHANGED <<page, analysis, loopVars, primary_categories, fallback_categories,
                   needs_fallback, state>>
    /\ link_failed' = FALSE
    /\ UNCHANGED expanded
    /\ UNCHANGED Others

\* variant: the id is the position in the list being built
BuildByPosition(r, depth, parent_id) ==
    IF validate_category(r.name, r.url)
    THEN [built |-> TRUE,
          categories |-> Append(categories,
                            Category(Len(categories) + 1, r.name, r.url, depth, parent_id))]
    ELSE [built |-> FALSE, categories |-> categories]

\* _next_category_id and _build_category on an extracted link: the id is
\* taken before validate_category can raise
Build(r, depth, parent_id) ==
    IF validate_category(r.name, r.url)
    THEN [built |-> TRUE,
          categories |-> Append(categories, Category(next_id, r.name, r.url, depth, parent_id))]
    ELSE [built |-> FALSE, categories |-> categories]

\* one top-level item of _extract_hover_menu (lines 133-147, 153-155)
HoverItem ==
    /\ pc = "_extract_hover_menu"
    /\ next_id <= MaxIds
    /\ \E item \in PageLinks, flyout \in BOOLEAN :
         LET r == extract_link(item)
             b == Build(r, 0, NoneId)
             selectors == SelectorsOf(analysis)
         IN /\ link_failed' = ~r.ok
            /\ IF ~r.ok
                  THEN UNCHANGED <<pc, categories, next_id, current_id>>
                  ELSE /\ next_id' = next_id + 1
                       /\ categories' = b.categories
                       /\ IF /\ b.built
                             /\ Truthy(Get(selectors, "flyout_panel"))
                             /\ Truthy(Get(selectors, "subcategory_items"))
                             /\ flyout
                          THEN pc' = "flyout" /\ current_id' = next_id
                          ELSE UNCHANGED <<pc, current_id>>
    /\ UNCHANGED <<seen_urls, callVars, endVars>>
    /\ UNCHANGED expanded
    /\ UNCHANGED Others

\* one sub-item of the flyout (lines 149-152); a sub-item that raises ends
\* the item's try block
HoverSub ==
    /\ pc = "flyout"
    /\ next_id <= MaxIds
    /\ \E sub \in PageLinks :
         LET r == extract_link(sub)
             b == Build(r, 1, current_id)
         IN /\ link_failed' = ~r.ok
            /\ IF ~r.ok
                  THEN pc' = "_extract_hover_menu" /\ UNCHANGED <<categories, next_id>>
                  ELSE /\ next_id' = next_id + 1
                       /\ categories' = b.categories
                       /\ pc' = (IF b.built THEN "flyout" ELSE "_extract_hover_menu")
    /\ UNCHANGED <<current_id, seen_urls, callVars, endVars>>
    /\ UNCHANGED expanded
    /\ UNCHANGED Others

\* the flyout has no further sub-items
HoverSubsDone ==
    /\ pc = "flyout"
    /\ pc' = "_extract_hover_menu"
    /\ UNCHANGED <<loopVars, callVars, endVars>>
    /\ link_failed' = FALSE
    /\ UNCHANGED expanded
    /\ UNCHANGED Others

\* one link of _extract_click_navigation (lines 191-215), over the links of
\* the blocks it processes
ClickLink ==
    /\ pc = "_extract_click_navigation"
    /\ next_id <= MaxIds
    /\ \E link \in PageLinks, is_expandable \in BOOLEAN :
         LET r == extract_link(link)
             b == Build(r, 0, NoneId)
         IN /\ link_failed' = ~r.ok
            /\ IF ~r.ok \/ r.url \in seen_urls
                  THEN UNCHANGED <<pc, categories, next_id, current_id, seen_urls, expanded>>
                  ELSE /\ seen_urls' = seen_urls \union {r.url}
                       /\ next_id' = next_id + 1
                       /\ categories' = b.categories
                       /\ IF b.built /\ is_expandable
                          THEN pc' = "children" /\ current_id' = next_id /\ expanded' = TRUE
                          ELSE UNCHANGED <<pc, current_id, expanded>>
    /\ UNCHANGED <<callVars, endVars>>
    /\ UNCHANGED Others

\* one child link of _extract_expandable_children (lines 397-405)
ClickChild ==
    /\ pc = "children"
    /\ next_id <= MaxIds
    /\ \E child_link \in PageLinks :
         LET r == extract_link(child_link)
             b == Build(r, 1, current_id)
         IN /\ link_failed' = ~r.ok
            /\ IF ~r.ok
                  THEN UNCHANGED <<categories, next_id>>
                  ELSE /\ next_id' = next_id + 1
                       /\ categories' = b.categories
    /\ UNCHANGED <<pc, current_id, seen_urls, callVars, endVars>>
    /\ UNCHANGED expanded
    /\ UNCHANGED Others

\* the subcategories _extract_expandable_children has collected
Subcategories == SelectSeq(categories, LAMBDA c : c.parent_id = current_id)

\* line 414: if subcategories
Collapses(subcategories) == subcategories /= <<>>

\* _extract_expandable_children returns (lines 412-421): no child
\* container or no further child link; the second click is made when
\* subcategories were found, and may raise
ClickChildrenDone ==
    /\ pc = "children"
    /\ pc' = "_extract_click_navigation"
    /\ \E click_raises \in BOOLEAN :
          expanded' = IF Collapses(Subcategories) THEN click_raises ELSE TRUE
    /\ link_failed' = FALSE
    /\ UNCHANGED <<loopVars, callVars, endVars>>
    /\ UNCHANGED Others

\* one element of _extract_generic_links (lines 290-296)
GenericLink ==
    /\ pc = "_extract_generic_links"
    /\ next_id <= MaxIds
    /\ \E element \in PageLinks :
         LET r == extract_link(element)
             b == Build(r, 0, NoneId)
         IN /\ link_failed' = ~r.ok
            /\ IF ~r.ok
                  THEN UNCHANGED <<categories, next_id>>
                  ELSE /\ next_id' = next_id + 1
                       /\ categories' = b.categories
    /\ UNCHANGED <<pc, current_id, seen_urls, callVars, endVars>>
    /\ UNCHANGED expanded
    /\ UNCHANGED Others

\* lines 50-82: the strategy method has returned; escalation, hierarchy
\* pass, validation and the writes to agent.state
FinishExtract ==
    /\ pc \in {"_extract_hover_menu", "_extract_click_navigation", "_extract_generic_links"}
    /\ LET needs == NeedsFallback(categories)
       IN \E dom \in (IF needs THEN FallbackDoms ELSE {Dom(0, 0)}) :
            LET fb == IF needs THEN FallbackMemo[dom, next_id]
                      ELSE [categories |-> <<>>, next_id |-> next_id]
                chosen == IF needs /\ FallbackReplaces(fb.categories, categories)
                          THEN fb.categories ELSE categories
                method == ExtractionMethod(needs, fb.categories, categories)
                processed == post_process(chosen, target_url)
            IN /\ needs_fallback' = needs
               /\ invoked' = (IF needs THEN invoked \union {"_fallback_extraction"} ELSE invoked)
               /\ primary_categories' = categories
               /\ fallback_categories' = fb.categories
               /\ next_id' = fb.next_id
               /\ categories' = chosen
               /\ IF validate_hierarchy(processed)
                  THEN /\ state' = [extraction_method |-> method,
                                    categories_found |-> Len(processed),
                                    categories |-> processed]
                       /\ result' = [kind |-> "return", categories |-> processed,
                                     total |-> Len(processed),
                                     navigation_type |-> navigation_type]
                       /\ pc' = "returned"
                  ELSE /\ state' = [key \in DOMAIN state \union {"extraction_method"} |->
                                       IF key = "extraction_method" THEN method
                                       ELSE state[key]]
                       /\ result' = Raised("ValidationError")
                       /\ pc' = "raised"
    /\ UNCHANGED <<page, analysis, target_url, navigation_type, current_id, seen_urls>>
    /\ link_failed' = FALSE
    /\ UNCHANGED expanded
    /\ UNCHANGED Others

Next ==
    \/ ExtractCall
    \/ HoverItem
    \/ HoverSub
    \/ HoverSubsDone
    \/ ClickLink
    \/ ClickChild
    \/ ClickChildrenDone
    \/ GenericLink
    \/ FinishExtract

Spec == Init /\ [][Next]_vars

----------------------------------------------------------------------------
(* Notions the properties are stated with                                  *)

NormKey(c, base_url) ==
    <<normalize_url(ensure_absolute(c.url, base_url)), c.depth>>

NoisyPositions(cats) ==
    {i \in 1..Len(cats) : i <= NoiseWindow /\ IsNoiseName(cats[i].name)}

WindowSize(cats) == Cardinality({i \in 1..Len(cats) : i <= NoiseWindow})

----------------------------------------------------------------------------
(* C2 - C6: one call of extract                                            *)

\* extract went through escalation and the hierarchy pass
Escalated == result.kind \in {"return", "ValidationError"}

\* every non-null parent_id of the list is the id of a member of the list
ParentsPresent(list) ==
    \A i \in 1..Len(list) :
        list[i].parent_id /= NoneId
            => \E j \in 1..Len(list) : list[j].id = list[i].parent_id

FirstOfItsKey(list, i) ==
    \A k \in 1..(i - 1) : NormKey(list[k], target_url) /= NormKey(list[i], target_url)

\* deduplication drops a parent (a later duplicate of its key) that a
\* surviving child (the first of its key) references
ParentDeduplicatedAway(list) ==
    \E i, j \in 1..Len(list) :
        /\ list[i].parent_id = list[j].id
        /\ FirstOfItsKey(list, i)
        /\ ~FirstOfItsKey(list, j)

\* C2: neither the list extract returns nor the list it stores in agent.state
\* holds a category whose non-null parent_id is not an id of that list; when
\* deduplication removes a parent that a surviving child references, extract
\* raises ValidationError and returns nothing.
C2_NoDanglingParent ==
    /\ result.kind = "return" => ParentsPresent(result.categories)
    /\ "categories" \in DOMAIN state => ParentsPresent(state.categories)
    /\ (Escalated /\ ParentDeduplicatedAway(categories))
          => (result.kind = "ValidationError" /\ "categories" \notin DOMAIN state)

C2_Witness ==
    /\ result.kind = "ValidationError"
    /\ ParentDeduplicatedAway(categories)

\* a child and its parent both survive and are returned
C2_WitnessKept ==
    /\ result.kind = "return"
    /\ \E i \in 1..Len(result.categories) : result.categories[i].parent_id /= NoneId

StrategyMethods ==
    {"_extract_hover_menu", "_extract_click_navigation", "_extract_generic_links"}

Piped(a) == "navigation_type" \in DOMAIN a /\ HasPipe(a.navigation_type)

\* method is what the text before the first "|" of nav_type, trimmed, selects
SelectedByFirstAlternative(method, nav_type) ==
    \E i \in 1..Len(nav_type) :
        /\ nav_type[i] = "|"
        /\ \A j \in 1..(i - 1) : nav_type[j] /= "|"
        /\ LET first == strip(SubSeq(nav_type, 1, i - 1))
           IN method = (IF first = hover_menu THEN "_extract_hover_menu"
                        ELSE IF first \in {sidebar, accordion, filter_sidebar}
                             THEN "_extract_click_navigation"
                        ELSE "_extract_generic_links")

\* C3: with a pipe-delimited navigation_type the only strategy extract runs
\* is the one of the first alternative; for "sidebar|hover_menu" that is
\* ClickNavigation, and HoverMenu is never entered, whatever ClickNavigation
\* yields.
C3_FirstAlternativeOnly ==
    (Piped(analysis) /\ pc /= "idle" /\ page) =>
        /\ \E m \in StrategyMethods :
              /\ invoked \intersect StrategyMethods = {m}
              /\ SelectedByFirstAlternative(m, analysis.navigation_type)
        /\ analysis.navigation_type = SidebarOrHover
              => /\ "_extract_click_navigation" \in invoked
                 /\ "_extract_hover_menu" \notin invoked

\* ClickNavigation yielded nothing for "sidebar|hover_menu"; the generic
\* patterns ran next, HoverMenu did not
C3_Witness ==
    /\ Piped(analysis)
    /\ analysis.navigation_type = SidebarOrHover
    /\ pc = "returned"
    /\ primary_categories = <<>>
    /\ invoked = {"_extract_click_navigation", "_fallback_extraction"}

\* C4: when the fallback ran, the list handed to the hierarchy pass is the
\* fallback's exactly when the fallback found strictly more categories than
\* the strategy; otherwise it is the strategy's list, empty or not.
C4_FallbackReplacesIffMore ==
    (Escalated /\ needs_fallback) =>
        LET kept == IF Len(fallback_categories) > Len(primary_categories)
                    THEN fallback_categories ELSE primary_categories
        IN /\ categories = kept
           /\ result.kind = "return" => IdSet(result.categories) \subseteq IdSet(kept)

\* a tie between two non-empty results: the strategy's list stands
C4_Witness ==
    /\ result.kind = "return"
    /\ needs_fallback
    /\ Len(primary_categories) > 0
    /\ Len(fallback_categories) = Len(primary_categories)
    /\ categories = primary_categories

\* the fallback found more and took the place of the strategy's list
C4_WitnessReplaced ==
    /\ result.kind = "return"
    /\ Len(primary_categories) > 0
    /\ Len(fallback_categories) > Len(primary_categories)
    /\ categories = fallback_categories

FallbackReplaced ==
    needs_fallback /\ Len(fallback_categories) > Len(primary_categories)

\* C5 as claimed: extraction_method is "fallback" exactly when the fallback
\* result replaced the primary result, and "ai" whenever the primary result
\* stands, also when both results are empty.
C5_MethodAsClaimed ==
    Escalated =>
        state.extraction_method = (IF FallbackReplaced THEN "fallback" ELSE "ai")

\* C5 as amended: extraction_method is "fallback" when the fallback result
\* replaced the primary result or the primary result is empty (so also when
\* both are empty), and "ai" exactly when a non-empty primary result stands.
C5_MethodRecorded ==
    Escalated =>
        state.extraction_method =
            (IF FallbackReplaced \/ Len(primary_categories) = 0 THEN "fallback" ELSE "ai")

\* both results empty
C5_Witness ==
    /\ Escalated
    /\ needs_fallback
    /\ primary_categories = <<>>
    /\ fallback_categories = <<>>
    /\ state.extraction_method = "fallback"

\* a smaller primary result replaced by a larger fallback result
C5_WitnessReplaced ==
    /\ Escalated
    /\ Len(primary_categories) = 1
    /\ Len(fallback_categories) = 3
    /\ state.extraction_method = "fallback"

\* more than half of the first ten names of the list are noise names
MostlyNoise(list) == 2 * Cardinality(NoisyPositions(list)) > WindowSize(list)

\* C6: the fallback scan runs after the strategy exactly when the strategy
\* found nothing, found fewer than 5 categories, or its result is flagged as
\* noise; a result of 5 or more categories that is not flagged is not
\* followed by a fallback scan and is recorded as "ai".
C6_EscalationRule ==
    Escalated =>
        /\ "_fallback_extraction" \in invoked
              <=> \/ Len(primary_categories) = 0
                  \/ Len(primary_categories) < 5
                  \/ MostlyNoise(primary_categories)
        /\ (Len(primary_categories) >= 5 /\ ~MostlyNoise(primary_categories))
              => /\ state.extraction_method = "ai"
                 /\ fallback_categories = <<>>
                 /\ categories = primary_categories

\* five categories, most of them noise: the fallback scan runs
C6_Witness ==
    /\ Escalated
    /\ Len(primary_categories) >= 5
    /\ MostlyNoise(primary_categories)
    /\ "_fallback_extraction" \in invoked

\* five categories, not flagged: no fallback scan
C6_WitnessClean ==
    /\ result.kind = "return"
    /\ Len(primary_categories) >= 5
    /\ ~MostlyNoise(primary_categories)
    /\ "_fallback_extraction" \notin invoked
    /\ state.extraction_method = "ai"

----------------------------------------------------------------------------
(* Specification SpecPost: _post_process on every bounded candidate list   *)

PPInit ==
    /\ PPStart
    /\ pp_base \in BaseUrls
    /\ NZStart
    /\ BPStart
    /\ ExStart
    /\ SVStart
    /\ RNStart
    /\ FBStart

\* the caller builds a candidate; ids follow the order of creation
PPAdd ==
    /\ pp_pc = "build"
    /\ Len(pp_in) < MaxCandidates
    /\ \E u \in RawUrls, d \in Depths :
         pp_in' = Append(pp_in, Category(Len(pp_in) + 1, PlainName, u, d, NoneId))
    /\ UNCHANGED <<pp_pc, pp_base, pp_out>>
    /\ UNCHANGED <<nzVars, exVars, bpVars, svVars, rnVars, fbVars>>

PPRun ==
    /\ pp_pc = "build"
    /\ pp_out' = post_process(pp_in, pp_base)
    /\ pp_pc' = "done"
    /\ UNCHANGED <<pp_in, pp_base>>
    /\ UNCHANGED <<nzVars, exVars, bpVars, svVars, rnVars, fbVars>>

PPNext == PPAdd \/ PPRun

SpecPost == PPInit /\ [][PPNext]_vars

----------------------------------------------------------------------------
(* C1 *)

\* C1: the list _post_process returns holds no two categories with the same
\* (normalized URL, depth) pair; every pair of the input has a survivor, the
\* survivor is the first input category carrying the pair, and the survivors
\* keep their input order.
C1_DedupFirstWins ==
    pp_pc = "done" =>
        /\ \A i, j \in 1..Len(pp_out) :
              (pp_out[i].url = pp_out[j].url /\ pp_out[i].depth = pp_out[j].depth)
                  => i = j
        /\ \A i \in 1..Len(pp_in) :
              \E k \in 1..Len(pp_out) :
                 /\ <<pp_out[k].url, pp_out[k].depth>> = NormKey(pp_in[i], pp_base)
                 /\ pp_out[k].id <= pp_in[i].id
                 /\ \A j \in 1..Len(pp_in) :
                       NormKey(pp_in[j], pp_base) = NormKey(pp_in[i], pp_base)
                           => pp_out[k].id <= pp_in[j].id
        /\ \A k \in 1..Len(pp_out) :
              \E i \in 1..Len(pp_in) : pp_in[i].id = pp_out[k].id
        /\ \A k, l \in 1..Len(pp_out) : k < l => pp_out[k].id < pp_out[l].id

\* a later duplicate (same URL up to fragment and origin, same depth) was dropped
C1_Witness ==
    /\ pp_pc = "done"
    /\ Len(pp_in) = 3
    /\ Len(pp_out) = 2
    /\ pp_in[1].url /= pp_in[3].url
    /\ NormKey(pp_in[1], pp_base) = NormKey(pp_in[3], pp_base)

----------------------------------------------------------------------------
(* Specification SpecNoise: _looks_like_noise on every bounded name list   *)


\* names appended to a list: a generic word once lowered and stripped, and a
\* category name that merely starts with that word
NoiseNames == {HomePadded, Homeware}

Named(names) == [i \in 1..Len(names) |-> Category(i, names[i], Url("", PathA, <<>>), 0, NoneId)]


\* the ten names of the worked example: six noise names and four categories
SixOfTen ==
    <<Login, Shoes, Cart, Hats, Account, Toys, Help, Books, SignIn, Checkout>>

\* the same with one noise name replaced: five noise names out of ten
FiveOfTen == [SixOfTen EXCEPT ![1] = Homeware]

NZInit ==
    /\ nz_pc = "build"
    /\ nz_in \in {<<>>, Named(SixOfTen), Named(FiveOfTen)}
    /\ nz_out = FALSE
    /\ PPStart
    /\ pp_base = SiteUrl
    /\ ExStart
    /\ BPStart
    /\ SVStart
    /\ RNStart
    /\ FBStart

NZAdd ==
    /\ nz_pc = "build"
    /\ Len(nz_in) < MaxNoiseNames
    /\ \E n \in NoiseNames :
         nz_in' = Append(nz_in, Category(Len(nz_in) + 1, n, Url("", PathA, <<>>), 0, NoneId))
    /\ UNCHANGED <<nz_pc, nz_out>>
    /\ UNCHANGED <<ppVars, exVars, bpVars, svVars, rnVars, fbVars>>

NZRun ==
    /\ nz_pc = "build"
    /\ nz_out' = looks_like_noise(nz_in)
    /\ nz_pc' = "done"
    /\ UNCHANGED nz_in
    /\ UNCHANGED <<ppVars, exVars, bpVars, svVars, rnVars, fbVars>>

NZNext == NZAdd \/ NZRun

SpecNoise == NZInit /\ [][NZNext]_vars

----------------------------------------------------------------------------
(* C7 *)

\* C7: the classifier flags a list exactly when strictly more than half of its
\* first min(10, n) names match the noise vocabulary; names past the tenth do
\* not count.
C7_NoiseMajority ==
    nz_pc = "done" =>
        (nz_out <=> 2 * Cardinality(NoisyPositions(nz_in)) > WindowSize(nz_in))

\* the worked example is flagged, also with a clean eleventh name
C7_Witness ==
    /\ nz_pc = "done"
    /\ Len(nz_in) = 11
    /\ SubSeq(nz_in, 1, 10) = Named(SixOfTen)
    /\ nz_in[11].name = Homeware
    /\ nz_out

\* five noise names out of ten are not flagged, whatever the eleventh name is
C7_WitnessHalf ==
    /\ nz_pc = "done"
    /\ Len(nz_in) = 11
    /\ SubSeq(nz_in, 1, 10) = Named(FiveOfTen)
    /\ nz_in[11].name = HomePadded
    /\ ~nz_out

----------------------------------------------------------------------------
(* Blueprint actions                                                       *)

bpFrame == <<exVars, ppVars, nzVars, svVars, rnVars, fbVars>>

\* the clock passes a second
Tick ==
    /\ now < MaxSeconds
    /\ now' = now + 1
    /\ UNCHANGED <<files, blueprint_path, bp_pc, bp_call, bp_result, blueprint, step>>
    /\ UNCHANGED waited_for
    /\ UNCHANGED bpFrame

\* BlueprintGeneratorTool.generate(categories, strategy); disk is what
\* happens to the write: "ok", "open" (path.open raises OSError) or "write"
\* (json.dump raises OSError after the file was opened)
Generate ==
    /\ bp_pc = "idle"
    /\ \E cats \in CategoryLists, strategy \in Strategies,
          retailer_name \in RetailerNames, disk \in {"ok", "open", "write"} :
         LET fields == GeneratedFields(cats, strategy, retailer_name, now)
             path == BlueprintPath(RetailerId, now)
         IN /\ bp_call' = [op |-> "generate", path |-> NoPath,
                           categories |-> cats, strategy |-> strategy]
            /\ IF Rejects(cats, strategy)
               THEN /\ bp_result' = Raise("generate", "BlueprintError")
                    /\ UNCHANGED <<files, blueprint_path>>
               ELSE IF ~ValidModel(fields)
               THEN /\ bp_result' = Raise("generate", "pydantic.ValidationError")
                    /\ UNCHANGED <<files, blueprint_path>>
               ELSE IF disk = "open"
               THEN /\ bp_result' = Raise("generate", "BlueprintError")
                    /\ UNCHANGED <<files, blueprint_path>>
               ELSE IF disk = "write"
               THEN /\ bp_result' = Raise("generate", "BlueprintError")
                    /\ files' = [files EXCEPT ![path] = File(Truncated)]
                    /\ UNCHANGED blueprint_path
               ELSE /\ bp_result' = Return("generate", path)
                    /\ files' = [files EXCEPT ![path] = File(BlueprintText(BlueprintModel(fields)))]
                    /\ blueprint_path' = path
    /\ blueprint' = NoBlueprint
    /\ UNCHANGED <<now, bp_pc, step, waited_for>>
    /\ UNCHANGED bpFrame

\* load_blueprint(path)
LoadBlueprint ==
    /\ bp_pc = "idle"
    /\ \E path \in Paths :
         LET loaded == load_blueprint(files[path])
         IN /\ bp_call' = [NoCall EXCEPT !.op = "load_blueprint", !.path = path]
            /\ bp_result' = loaded
            /\ blueprint' = IF loaded.kind = "return" THEN loaded.value ELSE NoBlueprint
    /\ UNCHANGED <<files, now, blueprint_path, bp_pc, step, waited_for>>
    /\ UNCHANGED bpFrame

\* execute_blueprint(page, blueprint, base_url), lines 14-18: up to the
\* first interaction step
ExecuteBlueprint ==
    /\ bp_pc = "idle"
    /\ "none" \notin DOMAIN blueprint
    /\ bp_pc' = "_perform_interactions"
    /\ step' = 1
    /\ bp_call' = [NoCall EXCEPT !.op = "execute_blueprint"]
    /\ waited_for' = <<>>
    /\ UNCHANGED <<files, now, blueprint_path, bp_result, blueprint>>
    /\ UNCHANGED bpFrame

\* one pass of the loop of _perform_interactions
InteractionStep ==
    /\ bp_pc = "_perform_interactions"
    /\ step <= Len(blueprint.interactions)
    /\ \E target_appears, wait_appears \in BOOLEAN :
         LET outcome == perform_interaction(blueprint.interactions[step], blueprint.selectors,
                                            target_appears, wait_appears)
         IN /\ waited_for' = waited_for \o waits(blueprint.interactions[step],
                                                   blueprint.selectors, target_appears)
            /\ IF outcome = "next"
               THEN step' = step + 1 /\ UNCHANGED <<bp_pc, bp_result>>
               ELSE /\ bp_result' = Raise("execute_blueprint", outcome)
                    /\ bp_pc' = "idle"
                    /\ UNCHANGED step
    /\ UNCHANGED <<files, now, blueprint_path, bp_call, blueprint>>
    /\ UNCHANGED bpFrame

\* _extract_categories, after the last interaction step
ExtractCategories ==
    /\ bp_pc = "_perform_interactions"
    /\ step > Len(blueprint.interactions)
    /\ \E elements \in ElementLists :
         bp_result' = extract_categories(blueprint.selectors, elements, SiteUrl)
    /\ bp_pc' = "idle"
    /\ UNCHANGED <<files, now, blueprint_path, bp_call, blueprint, step, waited_for>>
    /\ UNCHANGED bpFrame

OthersStart ==
    /\ ExStart
    /\ PPStart
    /\ pp_base = SiteUrl
    /\ NZStart
    /\ SVStart
    /\ RNStart
    /\ FBStart

----------------------------------------------------------------------------
(* Specification SpecReplay: load_blueprint and execute_blueprint on every *)
(* file of BlueprintFiles                                                  *)

ReplayInit ==
    /\ \E file \in BlueprintFiles :
          files = [path \in Paths |-> IF path = OwnPath THEN file ELSE NoFile]
    /\ now = 0
    /\ blueprint_path = NoPath
    /\ bp_pc = "idle"
    /\ bp_call = NoCall
    /\ bp_result = Raise("none", "none")
    /\ blueprint = NoBlueprint
    /\ step = 0
    /\ waited_for = <<>>
    /\ OthersStart

ReplayNext == LoadBlueprint \/ ExecuteBlueprint \/ InteractionStep \/ ExtractCategories

SpecReplay == ReplayInit /\ [][ReplayNext]_vars

----------------------------------------------------------------------------
(* C8, C9: load_blueprint and execute_blueprint                            *)

\* load_blueprint was the last call to finish; the file it was given
LoadDone == bp_call.op = "load_blueprint" /\ bp_result.op = "load_blueprint"

LoadedFile == files[bp_call.path]

\* the file is there and its content is a JSON text
Parses(file) ==
    file.exists /\ file.utf8 /\ loads(file.text).t /= "JSONDecodeError"

\* the file holds a JSON object
HoldsObject(file) == Parses(file) /\ file.text.k = "object"

MemberNames(file) == {file.text.body[i][1] : i \in 1..Len(file.text.body)}

\* the object states a version, and it is not the string "1.0"
WrongVersion(file) ==
    /\ HoldsObject(file)
    /\ \E i \in 1..Len(file.text.body) :
          /\ file.text.body[i][1] = "version"
          /\ file.text.body[i][2] /= Scalar(<<Quote>> \o OneDotZero \o <<Quote>>)

\* the object lacks one of the six required sections
MissingSection(file) ==
    HoldsObject(file) /\ ~(RequiredSections \subseteq MemberNames(file))

\* C8: load_blueprint raises BlueprintError for a missing or unparsable
\* file, for a document whose version is not "1.0" and for a document that
\* lacks a required section; a blueprint it returns comes from a file that
\* has none of these defects.
C8_LoadRejects ==
    LoadDone =>
        LET rejected == \/ ~Parses(LoadedFile)
                        \/ WrongVersion(LoadedFile)
                        \/ MissingSection(LoadedFile)
        IN /\ rejected => bp_result.kind = "BlueprintError"
           /\ bp_result.kind = "return" => ~rejected

ReplayDone == bp_result.op = "execute_blueprint"

\* the file holds a version-1.0 document with every section and a selector
\* map without category_links
CompleteWithoutLinks(file) ==
    /\ HoldsObject(file)
    /\ ~WrongVersion(file)
    /\ ~MissingSection(file)
    /\ LET doc == loads(file.text).v
       IN /\ ValidModel(doc)
          /\ "category_links" \notin DOMAIN doc["selectors"].v

\* C9: a complete version-1.0 document without a category_links selector is
\* loaded, and its replay raises BlueprintError; every replay either returns
\* at least one category or raises BlueprintError.
C9_ReplayOutcome ==
    /\ (LoadDone /\ CompleteWithoutLinks(LoadedFile)) => bp_result.kind = "return"
    /\ ReplayDone =>
          \/ bp_result.kind = "return" /\ Len(bp_result.value) >= 1
          \/ bp_result.kind = "BlueprintError"
    /\ (ReplayDone /\ "category_links" \notin DOMAIN blueprint.selectors)
          => bp_result.kind = "BlueprintError"

----------------------------------------------------------------------------
(* Specification SpecGenerate: generate, then load_blueprint               *)

GenerateInit == BPStart /\ OthersStart

GenerateNext == Tick \/ Generate \/ LoadBlueprint

SpecGenerate == GenerateInit /\ [][GenerateNext]_vars

----------------------------------------------------------------------------
(* C10: generate, then load_blueprint                                      *)

\* strategy.get("selectors", {}) as a plain map
StrategySelectors(strategy) ==
    IF "selectors" \in DOMAIN strategy THEN strategy["selectors"].v ELSE EmptyDict

\* strategy.get("interactions", []) as a list of plain maps
StrategyInteractions(strategy) ==
    IF "interactions" \in DOMAIN strategy
    THEN [i \in 1..Len(strategy["interactions"].v) |-> strategy["interactions"].v[i].v]
    ELSE <<>>

\* C10: when generate has returned a path and load_blueprint is then called
\* on that path, it returns a blueprint whose selectors and interactions are
\* those of the strategy generate was given.
C10_RoundTrip ==
    [][ ( /\ bp_result.op = "generate"
          /\ bp_result.kind = "return"
          /\ bp_call'.op = "load_blueprint"
          /\ bp_call'.path = bp_result.value )
        => ( /\ bp_result'.kind = "return"
             /\ bp_result'.value.selectors = StrategySelectors(bp_call.strategy)
             /\ bp_result'.value.interactions = StrategyInteractions(bp_call.strategy) )
      ]_vars

\* the blueprint written for HoverStrategy was loaded: a selector with
\* quotes, a null selector and two interaction steps came back
C10_Witness ==
    /\ LoadDone
    /\ bp_result.kind = "return"
    /\ bp_call.path = blueprint_path
    /\ "category_links" \in DOMAIN blueprint.selectors
    /\ blueprint.selectors["category_links"] = JStr(QuotedSelector)
    /\ blueprint.selectors["nav_container"] = JNull
    /\ blueprint.interactions = <<HoverStep, ScrollStep>>

----------------------------------------------------------------------------
(* C11: what generate leaves behind                                        *)

\* C11: a generate call with an empty category list or an empty strategy
\* raises BlueprintError, writes no file and leaves state["blueprint_path"]
\* as it was; a generate call that returns has set state["blueprint_path"]
\* to the path it returns, and a file exists at that path.
C11_GenerateRejectsOrWrites ==
    [][ bp_call'.op = "generate" =>
          /\ bp_result'.op = "generate"
          /\ (bp_call'.categories = <<>> \/ DOMAIN bp_call'.strategy = {})
                => /\ bp_result'.kind = "BlueprintError"
                   /\ files' = files
                   /\ blueprint_path' = blueprint_path
          /\ bp_result'.kind = "return"
                => /\ blueprint_path' = bp_result'.value
                   /\ files'[bp_result'.value].exists
      ]_vars

\* an empty strategy was rejected after an earlier blueprint had been written
C11_Witness ==
    /\ bp_result.op = "generate"
    /\ bp_result.kind = "BlueprintError"
    /\ bp_call.categories /= <<>>
    /\ DOMAIN bp_call.strategy = {}
    /\ blueprint_path /= NoPath
    /\ files[blueprint_path].exists

\* a blueprint was written and its path recorded
C11_WitnessWritten ==
    /\ bp_result.op = "generate"
    /\ bp_result.kind = "return"
    /\ blueprint_path = bp_result.value
    /\ files[blueprint_path].exists

----------------------------------------------------------------------------
(* Specification SpecSave: save_categories calls on one table              *)

SaveInit == BPStart /\ OthersStart

svFrame == <<exVars, ppVars, nzVars, bpVars, rnVars, fbVars>>

\* database.py lines 61-151; connects: line 71 found or opened the pool
SaveCategories ==
    /\ sv_calls < MaxCalls
    /\ \E cats \in Batches, retailer_id \in Retailers, connects \in BOOLEAN :
         \E raising \in IF connects THEN SUBSET (1..Len(cats)) ELSE {{}} :
            LET done == save_categories(cats, retailer_id, db_rows, raising)
            IN  /\ sv_call' = [categories |-> cats, retailer_id |-> retailer_id,
                               raising |-> raising]
                /\ IF connects
                   THEN /\ db_rows' = done.rows
                        /\ sv_written' = done.written
                        /\ sv_result' = [kind |-> "return", stats |-> done.stats]
                   ELSE /\ db_rows' = db_rows
                        /\ sv_written' = <<>>
                        /\ sv_result' = [kind |-> "DatabaseError", stats |-> ZeroStats]
    /\ sv_calls' = sv_calls + 1
    /\ UNCHANGED svFrame

SaveNext == SaveCategories

SpecSave == SaveInit /\ [][SaveNext]_vars

----------------------------------------------------------------------------
(* C12, C13, C14: save_categories                                          *)

\* the statements before statement k that wrote the row of k's parent
Wrote(k) == {j \in 1..(k - 1) : sv_written[j].local_id = sv_written[k].local_parent_id}

\* C12: rows are written in ascending depth order, and every category with
\* a non-null local parent_id is written with the persisted id of its
\* parent's row, written earlier in the same batch; never with a null
\* parent reference, also when the parent's row was skipped or errored.
C12_ParentTranslated ==
    \A k \in 1..Len(sv_written) :
       /\ \A j \in 1..(k - 1) : sv_written[j].depth <= sv_written[k].depth
       /\ sv_written[k].local_parent_id /= NoneId
             => /\ sv_written[k].parent_id /= NoneId
                /\ \E j \in Wrote(k) : sv_written[k].parent_id = sv_written[j].db_id

\* what holds of C12: the depth order, and the translation whenever the
\* parent's row was written earlier in the batch
C12_WhenParentWritten ==
    \A k \in 1..Len(sv_written) :
       /\ \A j \in 1..(k - 1) : sv_written[j].depth <= sv_written[k].depth
       /\ Wrote(k) /= {}
             => \E j \in Wrote(k) : sv_written[k].parent_id = sv_written[j].db_id
       /\ (sv_written[k].local_parent_id /= NoneId /\ Wrote(k) = {})
             => sv_written[k].parent_id = NoneId

\* the child of a skipped parent was inserted without a parent
C12_OrphanWritten ==
    /\ sv_call.categories =
          <<Category(1, "Root", NoUrlText, 0, NoneId), Category(2, "Child", ChildUrl, 1, 1)>>
    /\ sv_call.raising = {}
    /\ sv_result.kind = "return"
    /\ Len(sv_written) = 1
    /\ sv_written[1].op = "INSERT"
    /\ sv_written[1].local_parent_id = 1
    /\ sv_written[1].parent_id = NoneId

\* the turns of the last call that reached a statement
Reached ==
    LET sorted == sorted_categories(sv_call.categories)
    IN  {i \in 1..Len(sorted) : i \notin sv_call.raising /\ sorted[i].url /= NoUrlText}

\* C13: a save_categories call that connected returns, whatever rows fail;
\* its counts add up to the number of categories submitted, errors counts
\* the failed rows, and every other row with a url was still written.
C13_CountsAddUp ==
    (sv_calls > 0 /\ sv_result.kind /= "DatabaseError") =>
       LET stats == sv_result.stats
           sorted == sorted_categories(sv_call.categories)
       IN  /\ sv_result.kind = "return"
           /\ stats.saved + stats.updated + stats.skipped + stats.errors
                 = Len(sv_call.categories)
           /\ stats.errors = Cardinality(sv_call.raising)
           /\ stats.saved + stats.updated = Len(sv_written)
           /\ Len(sv_written) = Cardinality(Reached)
           /\ \A i \in Reached : \E k \in 1..Len(sv_written) :
                 sv_written[k].local_id = sorted[i].id

\* the first row failed and the second was still written
C13_Witness ==
    /\ sv_result.kind = "return"
    /\ Len(sv_call.categories) = 2
    /\ sv_call.raising = {1}
    /\ sv_result.stats.errors = 1
    /\ sv_result.stats.saved = 1
    /\ Len(sv_written) = 1

\* the (url, retailer_id) keys of a table
Keys(rows) == {<<rows[i].url, rows[i].retailer_id>> : i \in 1..Len(rows)}

\* at most one row per (url, retailer_id)
UniqueKeys(rows) ==
    \A i, j \in 1..Len(rows) :
       (rows[i].url = rows[j].url /\ rows[i].retailer_id = rows[j].retailer_id) => i = j

----------------------------------------------------------------------------
(* Specification SpecRun: run_extraction and run_blueprint on one agent    *)

RunInit == BPStart /\ OthersStart

rnFrame == <<exVars, ppVars, nzVars, bpVars, svVars, fbVars>>

\* a run of op that fails as plan says, with a cleanup that raises as chosen
Runs(op, plan) ==
    LET body == TryBlock(op, agent_handles, db_pool, plan)
    IN  \E ui_raises \in {"none"} \union body.handles,
           db_raises \in IF body.pool THEN BOOLEAN ELSE {FALSE} :
           LET done == run(op, run_state, agent_handles, db_pool, plan, ui_raises, db_raises)
           IN  /\ agent_handles' = done.handles
               /\ db_pool' = done.pool
               /\ run_state' = done.state
               /\ teardown' = done.calls
               /\ run_result' = done.result
               /\ run_call' = [op |-> op, plan |-> plan, ui_raises |-> ui_raises,
                                db_raises |-> db_raises, due |-> done.due,
                                connected |-> done.connected]

\* agent.py lines 188-214
RunExtraction ==
    /\ runs < MaxRuns
    /\ \E plan \in {NoFailure} \union ExtractionFailures(agent_handles, db_pool) :
          Runs("run_extraction", plan)
    /\ runs' = runs + 1
    /\ UNCHANGED rnFrame

\* agent.py lines 216-230
RunBlueprint ==
    /\ runs < MaxRuns
    /\ \E plan \in {NoFailure} \union BlueprintFailures(agent_handles) :
          Runs("run_blueprint", plan)
    /\ runs' = runs + 1
    /\ UNCHANGED rnFrame

RunNext == RunExtraction \/ RunBlueprint

SpecRun == RunInit /\ [][RunNext]_vars

----------------------------------------------------------------------------
(* C15, C16, C17, C18: the run boundary and cleanup                        *)

\* C15: run_extraction and run_blueprint never raise: whatever fails, in
\* the try block or in a teardown step of cleanup, the call returns an
\* outcome with a success flag.
C15_NeverRaises ==
    runs > 0 => /\ run_result.kind = "return"
                /\ run_result.success \in BOOLEAN

\* what holds of C15: a run whose cleanup does not raise returns, and its
\* outcome is a failure exactly when the try block raised
C15_ReturnsWhenCleanupDoes ==
    (runs > 0 /\ run_call.ui_raises = "none" /\ ~run_call.db_raises)
       => /\ run_result.kind = "return"
          /\ run_result.success = (run_call.plan = NoFailure)

\* a blueprint run that failed of nothing raised from cleanup
C15_CleanupRaised ==
    /\ run_call.op = "run_blueprint"
    /\ run_call.plan = NoFailure
    /\ run_call.ui_raises = "page"
    /\ run_result.kind = "raise"
    /\ run_result.exc = TeardownError
    /\ run_state.stage = "completed"

\* C16 as the code has it: a failed outcome has success = false and stage
\* "failed", and the message of the run's exception is appended to
\* state.errors; its error field is that message for run_blueprint and for
\* a NavigationError, AnalysisError or BotDetectionError of run_extraction,
\* and "Unexpected error during extraction" for any other exception of
\* run_extraction; a successful outcome has stage "completed" and appends
\* nothing to state.errors.
C16_FailedOutcome ==
    [][ run_result'.kind = "return" =>
          LET exc == run_call'.plan.exc
              named == exc.kind \in {"NavigationError", "AnalysisError", "BotDetectionError"}
          IN  IF exc = NoExc
              THEN /\ run_result'.success
                   /\ run_state'.stage = "completed"
                   /\ run_state'.errors = run_state.errors
              ELSE /\ ~run_result'.success
                   /\ run_state'.stage = "failed"
                   /\ run_state'.errors = Append(run_state.errors, exc.message)
                   /\ (run_call'.op = "run_blueprint" \/ named)
                         => run_result'.error = exc.message
                   /\ (run_call'.op = "run_extraction" /\ ~named)
                         => run_result'.error = "Unexpected error during extraction"
      ]_vars

\* C16: a failed outcome has success = false and stage "failed" and carries
\* the message of the run's first fatal error in its error field and at the
\* end of state.errors; a successful outcome has stage "completed" and
\* appends nothing to state.errors.
C16_ErrorFieldIsMessage ==
    [][ run_result'.kind = "return" =>
          LET exc == run_call'.plan.exc
          IN  IF exc = NoExc
              THEN /\ run_result'.success
                   /\ run_state'.stage = "completed"
                   /\ run_state'.errors = run_state.errors
              ELSE /\ ~run_result'.success
                   /\ run_state'.stage = "failed"
                   /\ run_state'.errors = Append(run_state.errors, exc.message)
                   /\ run_result'.error = exc.message
      ]_vars

\* a second run failed to connect: the outcome's error is the fixed text and
\* the message is the second entry of state.errors
C16_Witness ==
    /\ runs = 2
    /\ run_call.op = "run_extraction"
    /\ run_call.plan.at = "db.connect"
    /\ run_result.kind = "return"
    /\ ~run_result.success
    /\ run_result.error = "Unexpected error during extraction"
    /\ run_state.stage = "failed"
    /\ Len(run_state.errors) = 2
    /\ run_state.errors[2] = "Failed to connect to database: refused"

\* C17: in every cleanup, db.disconnect happens before any close or stop of
\* the page, context, browser and playwright.
C17_DisconnectFirst ==
    \A i, j \in 1..Len(teardown) :
       (teardown[i] = "db.disconnect" /\ teardown[j] /= "db.disconnect") => i < j

\* what holds of C17: db.disconnect is called in every cleanup, after the
\* close and stop calls, which come in the order page, context, browser,
\* playwright
C17_DisconnectLast ==
    runs > 0 =>
       /\ teardown /= <<>>
       /\ teardown[Len(teardown)] = "db.disconnect"
       /\ \E n \in 0..Len(TeardownSteps) :
             SubSeq(teardown, 1, Len(teardown) - 1)
                = SubSeq(SelectSeq(TeardownSteps, LAMBDA h : h \in run_call.due), 1, n)

\* a cleanup closed the page, context and browser, stopped playwright and
\* only then disconnected
C17_UiFirst ==
    teardown = <<"page", "context", "browser", "playwright", "db.disconnect">>

\* C18: whichever step of cleanup raises, every other step whose resource
\* exists is still attempted, and afterwards the page, context, browser and
\* playwright handles are all reset.
C18_StepsIsolated ==
    runs > 0 =>
       /\ \A h \in run_call.due : \E i \in 1..Len(teardown) : teardown[i] = h
       /\ \E i \in 1..Len(teardown) : teardown[i] = "db.disconnect"
       /\ agent_handles = {}

\* what holds of C18: a cleanup in which nothing raises attempts every step
\* and resets the handles; after a close or stop that raises, db.disconnect
\* is still called and, unless it raises too, the handles are reset
C18_WhenNothingRaises ==
    runs > 0 =>
       /\ (run_call.ui_raises = "none")
             => \A h \in run_call.due : \E i \in 1..Len(teardown) : teardown[i] = h
       /\ teardown[Len(teardown)] = "db.disconnect"
       /\ ~run_call.db_raises => agent_handles = {} /\ ~db_pool
       /\ run_call.db_raises => agent_handles = run_call.due /\ db_pool

\* page.close() raised: the context, browser and playwright were left open
C18_StepsSkipped ==
    /\ run_call.due = {"playwright", "browser", "context", "page"}
    /\ run_call.ui_raises = "page"
    /\ teardown = <<"page", "db.disconnect">>

----------------------------------------------------------------------------
(* C19: what a replay returns                                              *)

\* C19: the categories execute_blueprint returns each carry a local id, no
\* two of them the same, and no two of them share a (normalized URL, depth)
\* pair.
C19_ReplayHierarchy ==
    (ReplayDone /\ bp_result.kind = "return") =>
       LET cats == bp_result.value
       IN  /\ \A i \in 1..Len(cats) : "id" \in DOMAIN cats[i]
           /\ \A i, j \in 1..Len(cats) :
                 i /= j => /\ cats[i].id /= cats[j].id
                           /\ ~(cats[i].url = cats[j].url /\ cats[i].depth = cats[j].depth)

\* a replay returned two categories of one URL and depth, neither with an id
C19_DuplicateReturned ==
    /\ ReplayDone
    /\ bp_result.kind = "return"
    /\ Len(bp_result.value) = 2
    /\ bp_result.value[1].url = bp_result.value[2].url
    /\ bp_result.value[1].depth = bp_result.value[2].depth
    /\ \A i \in 1..2 : "id" \notin DOMAIN bp_result.value[i]

----------------------------------------------------------------------------
(* C20: a link that yields no text or href                                 *)

\* C20: in every strategy a link that fails to yield text or href is the
\* only link omitted: nothing is emitted for it, the pass is not aborted,
\* and the loop it is in goes on with the links after it, the later
\* sub-links of the same flyout or child container included.
C20_OnlyThatLinkOmitted ==
    [][ link_failed' => /\ categories' = categories
                        /\ pc' = pc
      ]_vars

\* what holds of C20: the failed link emits nothing and raises nothing out
\* of the pass; the loops over top-level items, navigation links, child
\* links and generic links go on, and the loop over the sub-items of a
\* flyout ends
C20_PassNotAborted ==
    [][ link_failed' => /\ categories' = categories
                        /\ next_id' = next_id
                        /\ result' = result
                        /\ pc /= "flyout" => pc' = pc
                        /\ pc = "flyout" => pc' = "_extract_hover_menu"
      ]_vars

----------------------------------------------------------------------------
(* C21, C23: the strategy attempt                                          *)

\* the strategy method the call entered
Entered == invoked \ {"_fallback_extraction"}

\* the call is over
CallOver == pc \in {"returned", "raised"}

\* C21: when the strategy method the call entered lacks a selector it
\* requires, extract still runs the fallback scan afterwards and does not
\* end with the ExtractionError.
C21_FallbackAfterMissingSelector ==
    \A method \in Entered :
       (CallOver /\ ~HasRequiredSelectors(method, SelectorsOf(analysis)))
          => /\ "_fallback_extraction" \in invoked
             /\ result.kind /= "ExtractionError"

\* what the code does instead: the ExtractionError of the strategy method
\* ends the call before the escalation is reached
C21_ErrorPropagates ==
    \A method \in Entered :
       ~HasRequiredSelectors(method, SelectorsOf(analysis))
          => /\ pc = "raised"
             /\ result.kind = "ExtractionError"
             /\ "_fallback_extraction" \notin invoked
             /\ categories = <<>>

\* strategy.get("navigation_type", "generic")
NavigationTypeOf(strategy) ==
    IF "navigation_type" \in DOMAIN strategy THEN strategy.navigation_type ELSE generic

\* split on "|", first token, trimmed
TrimmedFirstToken(s) == strip(IF HasPipe(s) THEN split_pick(s) ELSE s)

\* C23: for every navigation_type, with or without a "|", the strategy
\* method entered is the one of the whitespace-trimmed first token; a token
\* that is none of hover_menu, sidebar, accordion, filter_sidebar selects
\* _extract_generic_links.
C23_TrimmedFirstToken ==
    Entered /= {} =>
       Entered = {Dispatch(TrimmedFirstToken(NavigationTypeOf(analysis)))}

\* what holds of C23: the first token is trimmed only when the type holds a
\* "|"; a type without one is dispatched on as it is written
C23_TrimmedAfterSplitOnly ==
    Entered /= {} =>
       LET s == NavigationTypeOf(analysis)
       IN  /\ HasPipe(s) => Entered = {Dispatch(TrimmedFirstToken(s))}
           /\ ~HasPipe(s) => Entered = {Dispatch(s)}
           /\ navigation_type \notin {hover_menu, sidebar, accordion, filter_sidebar}
                 => Entered = {"_extract_generic_links"}

----------------------------------------------------------------------------
(* Specification SpecCalls: extract called again on the same tool          *)

\* the tool is called again: the locals of extract start afresh, _next_id
\* and agent.state stay as the call before left them
ExtractAgain ==
    /\ pc \in {"returned", "raised"}
    /\ next_id <= MaxIdsBefore
    /\ pc' = "idle"
    /\ target_url' = NoUrl
    /\ navigation_type' = <<>>
    /\ invoked' = {}
    /\ categories' = <<>>
    /\ current_id' = NoneId
    /\ seen_urls' = {}
    /\ primary_categories' = <<>>
    /\ fallback_categories' = <<>>
    /\ needs_fallback' = FALSE
    /\ result' = NoResult
    /\ link_failed' = FALSE
    /\ UNCHANGED <<page, analysis, next_id, state>>
    /\ UNCHANGED expanded
    /\ UNCHANGED Others

\* the tool of an agent whose page is set and whose analysis names the
\* generic or the sidebar strategy
CallsInit ==
    /\ Init
    /\ page
    /\ analysis \in {Analysis(generic, FullSelectors), Analysis(sidebar, FullSelectors)}

CallsNext ==
    \/ ExtractCall
    \/ ClickLink
    \/ ClickChild
    \/ ClickChildrenDone
    \/ GenericLink
    \/ FinishExtract
    \/ ExtractAgain

SpecCalls == CallsInit /\ [][CallsNext]_vars

----------------------------------------------------------------------------
(* C22: local ids                                                          *)

Ids(cats) == {cats[i].id : i \in 1..Len(cats)}

\* the ids of a list are pairwise distinct and ascending in list order
Ascending(cats) == \A i, j \in 1..Len(cats) : i < j => cats[i].id < cats[j].id

\* the categories agent.state holds
StateCategories(st) == IF "categories" \in DOMAIN st THEN st.categories ELSE <<>>

\* C22: _next_id never goes back, every category created in a step carries
\* an id that no earlier step handed out (at least the _next_id before the
\* step, below the one after it), also after skipped elements, a discarded
\* primary result and earlier extract calls on the tool; so every list
\* extract holds or returns has pairwise distinct ids in ascending order,
\* and the list of a new call shares no id with the list an earlier call
\* left in agent.state.
C22_IdsNeverReused ==
    [][ /\ next_id' >= next_id
        /\ \A id \in Ids(categories') \ Ids(categories) : next_id <= id /\ id < next_id'
        /\ \A id \in Ids(categories') \union Ids(StateCategories(state')) : id < next_id'
        /\ Ascending(categories')
        /\ Ascending(StateCategories(state'))
        /\ result'.kind = "return" => Ascending(result'.categories)
        /\ pc' \notin {"returned", "idle"}
              => Ids(categories') \intersect Ids(StateCategories(state)) = {}
      ]_vars

\* a later call is under way: it has created a category while agent.state
\* holds the list the call before returned
C22_Witness ==
    /\ pc \in {"_extract_click_navigation", "children", "_extract_generic_links"}
    /\ categories /= <<>>
    /\ StateCategories(state) /= <<>>
    /\ next_id > 2

----------------------------------------------------------------------------
(* C24: blueprint files once written                                       *)

\* C24: no generate call overwrites or modifies a blueprint file written
\* before, and every generate call that returns has made a new file.
C24_NeverOverwrites ==
    [][ bp_call'.op = "generate" =>
          /\ \A path \in Paths : files[path].exists => files'[path] = files[path]
          /\ bp_result'.kind = "return" => ~files[bp_result'.value].exists
      ]_vars

\* what holds of C24: a generate call touches no file but the one named by
\* the retailer and the second of the call
C24_OnlyThePathOfTheSecond ==
    [][ bp_call'.op = "generate" =>
          /\ \A path \in Paths \ {BlueprintPath(RetailerId, now)} :
                files'[path] = files[path]
          /\ bp_result'.kind = "return"
                => bp_result'.value = BlueprintPath(RetailerId, now)
      ]_vars

----------------------------------------------------------------------------
(* C25: the raw list of _extract_click_navigation                          *)

\* _extract_click_navigation is collecting into categories
InClickPass ==
    /\ Entered = {"_extract_click_navigation"}
    /\ pc \in {"_extract_click_navigation", "children"}

\* C25: the list _extract_click_navigation collects holds no two candidates
\* with the same URL, top-level links and child links alike.
C25_NoUrlTwice ==
    InClickPass =>
       \A i, j \in 1..Len(categories) :
          categories[i].url = categories[j].url => i = j

\* what holds of C25: the top-level links of the list have pairwise
\* different hrefs, and seen_urls holds exactly their hrefs
C25_TopLevelOnly ==
    InClickPass =>
       /\ \A i, j \in 1..Len(categories) :
             ( /\ categories[i].depth = 0
               /\ categories[j].depth = 0
               /\ categories[i].url = categories[j].url ) => i = j
       /\ \A i \in 1..Len(categories) :
             categories[i].depth = 0 => categories[i].url \in seen_urls


\* ---------------------------------------------------------------------
\* Expansion and collapse of an expandable item
\* ---------------------------------------------------------------------

\* _extract_expandable_children has just returned
ChildrenReturned == pc = "children" /\ pc' = "_extract_click_navigation"

\* C26: every click that expands an item is followed by a second click
\* that collapses it before the next link is processed, whether or not
\* child links were found.
C26_CollapsedBeforeNextLink == [][ChildrenReturned => ~expanded']_vars

\* What holds: an item is left open after its children were read only
\* when the second click raised; an item without children found is left
\* open.
C26_CollapsedWhenChildrenFound ==
    [][ChildrenReturned =>
          /\ (Subcategories = <<>> => expanded')
          /\ (~expanded' => Subcategories /= <<>>)]_vars


\* ---------------------------------------------------------------------
\* _fallback_extraction on pages whose patterns answer differently
\* ---------------------------------------------------------------------

PatternLetters == <<"a", "b", "c", "d", "e", "f", "g", "h">>

\* the k-th link of the c-th container matched by pattern p: its href
\* names the three; the second link of a container is a login link
ScanLink(p, c, k) ==
    IF k = 2 THEN [text |-> Login, href |-> Url("", <<"/","l","o","g","i","n">>, <<>>)]
    ELSE [text |-> Bags,
          href |-> Url("", <<"/", PatternLetters[p], DigitChars[c + 1],
                             DigitChars[(k \div 10) + 1], DigitChars[(k % 10) + 1]>>, <<>>)]

ScanContainer(p, c, n) == [raises |-> FALSE, links |-> [k \in 1..n |-> ScanLink(p, c, k)]]
\* container.query_selector_all raises
RaisingContainer == [raises |-> TRUE, links |-> <<>>]

\* one link more than the scan reads of a container
TooManyLinks == MaxLinksPerContainer + 1

\* what a page may answer to the container selector of pattern p
ScanAnswer(p, kind) ==
    CASE kind = "none" -> NoContainers
      [] kind = "raises" -> [raises |-> TRUE, containers |-> <<>>]
      [] kind = "empty" -> [raises |-> FALSE, containers |-> <<ScanContainer(p, 1, 0)>>]
      [] kind = "links" -> [raises |-> FALSE, containers |-> <<ScanContainer(p, 1, 3)>>]
      [] kind = "partial" ->
            [raises |-> FALSE,
             containers |-> <<ScanContainer(p, 1, 3), RaisingContainer, ScanContainer(p, 3, 3)>>]
      [] kind = "large" ->
            [raises |-> FALSE,
             containers |-> <<ScanContainer(p, 1, TooManyLinks), ScanContainer(p, 2, 1),
                              ScanContainer(p, 3, 1), ScanContainer(p, 4, 1)>>]

AnswerKinds == {"none", "raises", "empty", "links", "partial", "large"}

\* the patterns whose answer varies: aside, [class*='filter'] and nav;
\* [role='navigation'] always matches a container of links
VariedPatterns == {1, 5, 6}
LastPattern == Len(fallback_patterns)

ScanDom(kinds) ==
    [s \in {fallback_patterns[p] : p \in 1..LastPattern} |->
        LET p == CHOOSE q \in 1..LastPattern : fallback_patterns[q] = s
        IN IF p \in VariedPatterns THEN ScanAnswer(p, kinds[p])
           ELSE IF p = LastPattern THEN ScanAnswer(p, "links")
           ELSE NoContainers]

ScanDoms == {ScanDom(kinds) : kinds \in [VariedPatterns -> AnswerKinds]}

FallbackInit ==
    /\ fb_page \in ScanDoms
    /\ fb_next_id \in 1..MaxCalls
    /\ fb_pc = "idle"
    /\ fb_result = NoScan
    /\ BPStart
    /\ ExStart /\ PPStart /\ pp_base = SiteUrl /\ NZStart /\ SVStart /\ RNStart

\* one call of _fallback_extraction
FallbackCall ==
    /\ fb_pc = "idle"
    /\ fb_pc' = "returned"
    /\ LET acc == FallbackScan(fb_page, fb_next_id)
       IN fb_result' = [categories |-> acc.categories, next_id |-> acc.next_id,
                        queried |-> acc.queried]
    /\ UNCHANGED <<fb_page, fb_next_id>>
    /\ UNCHANGED <<exVars, ppVars, nzVars, bpVars, svVars, rnVars>>

FallbackNext == FallbackCall

SpecFallback == FallbackInit /\ [][FallbackNext]_vars

\* the hrefs the scan may read under pattern p: the first 50 links of the
\* first 3 containers
Examined(dom, p) ==
    LET containers == FirstN(dom[fallback_patterns[p]].containers, MaxContainers)
    IN UNION { { extract_link(l).url :
                   l \in { FirstN(containers[c].links, MaxLinksPerContainer)[k] :
                             k \in 1..Len(FirstN(containers[c].links, MaxLinksPerContainer)) } } :
               c \in 1..Len(containers) }

FromPattern(cats, dom, p) == \A i \in 1..Len(cats) : cats[i].url \in Examined(dom, p)

IsPrefix(s, t) == Len(s) <= Len(t) /\ \A i \in 1..Len(s) : s[i] = t[i]

\* C27: the patterns are tried in the fixed order and the scan stops at
\* the first pattern that yields any category: every category returned
\* comes from that single pattern, within its first 3 containers and 50
\* links each (at most 150), no later pattern is queried, and a pattern
\* that raises is skipped rather than ending the scan.
C27_SinglePattern ==
    fb_pc = "returned" =>
       /\ IsPrefix(fb_result.queried, fallback_patterns)
       /\ Len(fb_result.categories) <= MaxContainers * MaxLinksPerContainer
       /\ fb_result.categories /= <<>> =>
             /\ FromPattern(fb_result.categories, fb_page, Len(fb_result.queried))
             /\ \A p \in 1..(Len(fb_result.queried) - 1) :
                   ~\E i \in 1..Len(fb_result.categories) :
                       fb_result.categories[i].url \in Examined(fb_page, p)
       /\ fb_result.categories = <<>> => fb_result.queried = fallback_patterns

\* What holds: the order, the bounds per pattern, and a raising or empty
\* pattern never ends the scan; a category comes from a pattern that was
\* queried, and the scan stops after the first pattern that ends without
\* raising once a category has been collected.
C27_StopsAfterCleanPattern ==
    fb_pc = "returned" =>
       /\ IsPrefix(fb_result.queried, fallback_patterns)
       /\ \A i \in 1..Len(fb_result.categories) :
             \E p \in 1..Len(fb_result.queried) :
                fb_result.categories[i].url \in Examined(fb_page, p)
       /\ fb_result.categories = <<>> => fb_result.queried = fallback_patterns
       /\ Len(fb_result.queried) < LastPattern =>
             /\ fb_result.categories /= <<>>
             /\ ~fb_page[fallback_patterns[Len(fb_result.queried)]].raises
             /\ \A c \in 1..Len(FirstN(fb_page[fallback_patterns[Len(fb_result.queried)]].containers,
                                       MaxContainers)) :
                   ~fb_page[fallback_patterns[Len(fb_result.queried)]].containers[c].raises


\* ---------------------------------------------------------------------
\* The selectors a replay hands to the page
\* ---------------------------------------------------------------------

\* execute_blueprint was the last call made: blueprint is the one replayed
Replaying == bp_call.op = "execute_blueprint"

\* the selector a token stands for when a null value counts as absent
UsableOrToken(selectors, token) ==
    LET value == resolve_selector(selectors, token)
    IN IF value.t = "null" THEN token ELSE value

\* C28: the selector used for a hover/click target or a wait_for is the
\* selector map's value when the token is a key with a non-null selector,
\* and otherwise the token itself: a key mapped to null falls back to the
\* literal token, and null is not passed to the page.
C28_NullFallsBackToToken ==
    Replaying =>
       \A i \in 1..Len(waited_for) :
          /\ waited_for[i].selector = UsableOrToken(blueprint.selectors, waited_for[i].token)
          /\ waited_for[i].token.t = "str" => waited_for[i].selector.t /= "null"

\* What holds: a token that is a key of the selector map stands for the
\* value stored under it, null included, and any other token for itself.
C28_ValueOfKeyOrToken ==
    Replaying =>
       \A i \in 1..Len(waited_for) :
          LET token == waited_for[i].token
              keys == {key \in DOMAIN blueprint.selectors :
                          NamesKey(blueprint.selectors, token, key)}
          IN IF token.t = "str" /\ keys /= {}
             THEN \A key \in keys : waited_for[i].selector = blueprint.selectors[key]
             ELSE waited_for[i].selector = token

\* ---------------------------------------------------------------------
\* A wait that times out during replay
\* ---------------------------------------------------------------------

\* C29: when a hover/click target or a wait_for selector does not appear
\* within the step's timeout, that step is skipped and the remaining steps
\* and the final category extraction still run; the timeout does not
\* abort the replay.
C29_TimeoutSkipsStep ==
    [][(bp_pc = "_perform_interactions" /\ step <= Len(blueprint.interactions))
          => /\ bp_pc' = "_perform_interactions"
             /\ step' = step + 1
             /\ bp_result'.kind /= "TimeoutError"]_vars

\* What holds: a wait that times out ends execute_blueprint with the
\* TimeoutError at the step it occurred in; no later step runs and
\* _extract_categories is not reached.
C29_TimeoutAborts ==
    [][(bp_pc = "_perform_interactions" /\ bp_result'.kind = "TimeoutError"
           /\ bp_result' /= bp_result)
          => /\ bp_pc' = "idle"
             /\ step' = step
             /\ step <= Len(blueprint.interactions)]_vars


\* ---------------------------------------------------------------------
\* agent.state across a call of extract that raises
\* ---------------------------------------------------------------------

\* a call of extract ends by raising
ExtractRaises == pc /= "raised" /\ pc' = "raised"
\* a call of extract ends by returning
ExtractReturns == pc /= "returned" /\ pc' = "returned"

\* C30: if extract raises (missing analysis, missing required selector or
\* hierarchy validation failure), agent.state is unchanged by the call:
\* categories, categories_found and extraction_method keep their pre-call
\* values; they are written only by a call that returns, and then
\* categories_found equals the length of categories.
C30_StateUnchangedOnRaise ==
    [][ /\ ExtractRaises => state' = state
        /\ state' /= state => ExtractReturns
        /\ ExtractReturns => state'.categories_found = Len(state'.categories) ]_vars

\* What holds: categories and categories_found are written only by a call
\* that returns, and then agree with each other and with the result; a
\* call that raises for a missing analysis or selector leaves agent.state
\* as it was, and one that raises ValidationError has written
\* extraction_method and nothing else.
C30_OnlyMethodWrittenOnRaise ==
    [][ /\ ExtractRaises =>
              /\ StateCategories(state') = StateCategories(state)
              /\ ("categories" \in DOMAIN state') = ("categories" \in DOMAIN state)
              /\ state'.categories_found = state.categories_found
              /\ result'.kind /= "ValidationError" => state' = state
              /\ result'.kind = "ValidationError" => "extraction_method" \in DOMAIN state'
        /\ state' /= state => (ExtractReturns \/ (ExtractRaises /\ result'.kind = "ValidationError"))
        /\ ExtractReturns =>
              /\ state'.categories_found = Len(state'.categories)
              /\ state'.categories = result'.categories
              /\ result'.total = state'.categories_found ]_vars

====
